---------------------------- MODULE Spec2Model ----------------------------
(***************************************************************************)
(* A model of the incremental Earley parser of llguidance_ctrl             *)
(* (src/controllers/llguidance_ctrl/src/earley/parser.rs): the Parser      *)
(* value, its lexer-state stack, its rows and row-infos, and the           *)
(* operations an external driver (the token trie walker, the controller)   *)
(* calls on it.  Indices are 0-based as in the source; a TLA+ sequence s   *)
(* holds the source's element i at s[i + 1].                               *)
(***************************************************************************)
EXTENDS Integers, Sequences, FiniteSets, TLC

(***************************************************************************)
(* Bounds of the exploration.                                              *)
(***************************************************************************)
\* the driver feeds bytes only while the lexer stack is shorter than this
MaxStack == 6

\* the longest token sequence given to apply_tokens
MaxTokens == 2

\* the driver feeds bytes only while fewer captures than this are recorded
MaxCaptures == 2

\* the byte-level parser is fed definitive bytes only while it has fewer
\* rows than this
MaxByteRows == 3

\* and speculative bytes only while fewer than this are pushed and not popped
MaxBytePushed == 2

\* the children of a node over leaves, and of a node over those
MaxArgs == 3

MaxArgsDeep == 2

\* the calls of exec on a CmdChannel
MaxExecs == 4

\* the concurrent calls of exec on an AsyncCmdChannel
MaxCalls == 3

(***************************************************************************)
(* Program constants.                                                      *)
(***************************************************************************)
\* CSymIdx::NULL: the symbol "at the dot" of a complete rule
NULL == 0
\* LexemeIdx::SKIP
SKIP == 0
\* Option::None of a byte or of a lexeme index
None == -1
\* usize::MAX ("unlimited" max_tokens, untouched token_idx_start)
USIZE_MAX == 1000000
\* MAX_ROW
MAX_ROW == 100

(***************************************************************************)
(* Generic helpers.                                                        *)
(***************************************************************************)
IsPrefix(s, t) == Len(s) <= Len(t) /\ SubSeq(t, 1, Len(s)) = s

MinOf(S) == CHOOSE x \in S : \A y \in S : x <= y

Min(a, b) == IF a <= b THEN a ELSE b

Max(a, b) == IF a >= b THEN a ELSE b

RECURSIVE Concat(_)
Concat(ss) ==
    IF Len(ss) = 0 THEN <<>>
    ELSE IF Len(ss) = 1 THEN ss[1]
    ELSE Concat(SubSeq(ss, 1, Len(ss) \div 2))
            \o Concat(SubSeq(ss, Len(ss) \div 2 + 1, Len(ss)))

\* the elements of sequence s that satisfy Test, in order
Filter(s, Test(_)) == SelectSeq(s, Test)

\* "let v = ...; F": the value is computed once and named by F's parameter
Bind(v, F(_)) == F(v)

(***************************************************************************)
(* Grammars.  A CGrammar stores its rules flattened: rhs[r] is the symbol  *)
(* at the dot of rule position r (NULL when the rule is complete), lhs[r]  *)
(* the rule's left-hand side, and advancing the dot is r + 1.              *)
(***************************************************************************)
Term(lx) ==
    [is_terminal |-> TRUE, is_nullable |-> FALSE, lexeme |-> lx,
     gen_grammar |-> FALSE, max_tokens |-> USIZE_MAX, capture_name |-> "",
     stop_capture_name |-> "", model_variable |-> ""]

NonTerm ==
    [is_terminal |-> FALSE, is_nullable |-> FALSE, lexeme |-> None,
     gen_grammar |-> FALSE, max_tokens |-> USIZE_MAX, capture_name |-> "",
     stop_capture_name |-> "", model_variable |-> ""]

\* a lexeme whose regex is a literal string
Lit(w) ==
    [words |-> {w}, hidden_len |-> 0, literal |-> TRUE, ends_at_eos |-> FALSE]
\* a lexeme whose regex is not a literal: its words, the last hidden_len
\* bytes of each being lookahead
Rx(ws, h) ==
    [words |-> ws, hidden_len |-> h, literal |-> FALSE, ends_at_eos |-> FALSE]
\* RegexAst::NoMatch
NoMatch == Rx({}, 0)

RECURSIVE FlatRhs(_)
FlatRhs(prods) ==
    IF prods = <<>> THEN <<>>
    ELSE Head(prods)[2] \o <<NULL>> \o FlatRhs(Tail(prods))

RECURSIVE FlatLhs(_)
FlatLhs(prods) ==
    IF prods = <<>> THEN <<>>
    ELSE [i \in 1..(Len(Head(prods)[2]) + 1) |-> Head(prods)[1]]
         \o FlatLhs(Tail(prods))

\* the first rule position of production number k
RECURSIVE RuleStart(_, _)
RuleStart(prods, k) ==
    IF k = 1 THEN 1
    ELSE RuleStart(prods, k - 1) + Len(prods[k - 1][2]) + 1

\* rules_of(sym): the first positions of sym's productions, in order
RulesOf(prods, sym) ==
    LET ks == Filter([k \in 1..Len(prods) |-> k], LAMBDA k : prods[k][1] = sym)
    IN  [j \in 1..Len(ks) |-> RuleStart(prods, ks[j])]

\* prods: <<lhs, <<rhs symbols>>>> in order; syms: the symbol table, indexed
\* by CSymIdx; lexemes: the lexer specification, indexed by LexemeIdx;
\* alphabet: the bytes the driver feeds (the grammar's bytes and 120, a byte
\* no lexeme contains)
MkGrammar(greedy, start, syms, prods, lexemes, alphabet) ==
    [greedy |-> greedy, start |-> start, syms |-> syms,
     rhs |-> FlatRhs(prods), lhs |-> FlatLhs(prods),
     rules |-> [s \in 1..Len(syms) |-> RulesOf(prods, s)],
     lexemes |-> lexemes, alphabet |-> alphabet]

\* S -> "ab" | "ac"                                   (lazy lexer)
GrammarAbAc ==
    MkGrammar(FALSE, 1,
        <<NonTerm, Term(1), Term(2)>>,
        << <<1, <<2>>>>, <<1, <<3>>>> >>,
        (0 :> NoMatch) @@ (1 :> Lit(<<97, 98>>)) @@ (2 :> Lit(<<97, 99>>)),
        {97, 98, 99, 120})

\* S -> "hello"                                       (lazy lexer)
GrammarHello ==
    MkGrammar(FALSE, 1,
        <<NonTerm, Term(1)>>,
        << <<1, <<2>>>> >>,
        (0 :> NoMatch) @@ (1 :> Lit(<<104, 101, 108, 108, 111>>)),
        {104, 101, 108, 111, 120})

\* S -> N "!" ; N -> "abc", N captured as "name"      (lazy lexer)
GrammarCapture ==
    MkGrammar(FALSE, 1,
        <<NonTerm, [NonTerm EXCEPT !.capture_name = "name"], Term(1), Term(2)>>,
        << <<1, <<2, 4>>>>, <<2, <<3>>>> >>,
        (0 :> NoMatch) @@ (1 :> Lit(<<97, 98, 99>>)) @@ (2 :> Lit(<<33>>)),
        {97, 98, 99, 33, 120})

\* S -> GEN "abc" ; GEN = an optional "c" then the stop "ab", which is two
\* hidden lookahead bytes; the skip lexeme is the literal "abd", so that
\* every lexeme allowed after GEN starts with the hidden bytes  (lazy lexer)
GrammarHiddenForced ==
    MkGrammar(FALSE, 1,
        <<NonTerm, Term(1), Term(2)>>,
        << <<1, <<2, 3>>>> >>,
        (0 :> Lit(<<97, 98, 100>>))
            @@ (1 :> Rx({<<97, 98>>, <<99, 97, 98>>}, 2))
            @@ (2 :> Lit(<<97, 98, 99>>)),
        {97, 98, 99, 120})

\* the same grammar with no skip lexeme: the hidden bytes are not forced
GrammarHidden ==
    MkGrammar(FALSE, 1,
        <<NonTerm, Term(1), Term(2)>>,
        << <<1, <<2, 3>>>> >>,
        (0 :> NoMatch)
            @@ (1 :> Rx({<<97, 98>>, <<99, 97, 98>>}, 2))
            @@ (2 :> Lit(<<97, 98, 99>>)),
        {97, 98, 99, 120})

\* S -> A "!" | A MV | MV "!" ; A = a | aa   (greedy lexer)
\* MV is a symbol carrying the model variable "eos"
GrammarGreedy ==
    MkGrammar(TRUE, 1,
        <<NonTerm, Term(1), Term(2),
          [NonTerm EXCEPT !.model_variable = "eos"]>>,
        << <<1, <<2, 3>>>>, <<1, <<2, 4>>>>, <<1, <<4, 3>>>> >>,
        (0 :> NoMatch)
            @@ (1 :> Rx({<<97>>, <<97, 97>>}, 0))
            @@ (2 :> Lit(<<33>>)),
        {97, 33, 120})

\* S -> N "!" ; N -> "ab" "c", N captured as "name": a capture that spans
\* two lexemes                                        (lazy lexer)
GrammarCaptureTwo ==
    MkGrammar(FALSE, 1,
        <<NonTerm, [NonTerm EXCEPT !.capture_name = "name"],
          Term(1), Term(2), Term(3)>>,
        << <<1, <<2, 5>>>>, <<2, <<3, 4>>>> >>,
        (0 :> NoMatch) @@ (1 :> Lit(<<97, 98>>)) @@ (2 :> Lit(<<99>>))
            @@ (3 :> Lit(<<33>>)),
        {97, 98, 99, 33, 120})

\* S -> "a" B | "a" C ; B = "c!" with max_tokens 1, C = "cc" with no budget
\*                                                    (lazy lexer)
GrammarBudget ==
    MkGrammar(FALSE, 1,
        <<NonTerm, Term(1), [Term(2) EXCEPT !.max_tokens = 1], Term(3)>>,
        << <<1, <<2, 3>>>>, <<1, <<2, 4>>>> >>,
        (0 :> NoMatch) @@ (1 :> Lit(<<97>>)) @@ (2 :> Lit(<<99, 33>>))
            @@ (3 :> Lit(<<99, 99>>)),
        {97, 99, 33, 120})

\* S -> N "!" ; N -> A ; A = a | aa, N captured as "name"   (greedy lexer)
GrammarGreedyCapture ==
    MkGrammar(TRUE, 1,
        <<NonTerm, [NonTerm EXCEPT !.capture_name = "name"], Term(1), Term(2)>>,
        << <<1, <<2, 4>>>>, <<2, <<3>>>> >>,
        (0 :> NoMatch) @@ (1 :> Rx({<<97>>, <<97, 97>>}, 0))
            @@ (2 :> Lit(<<33>>)),
        {97, 33, 120})

\* S -> "a"                                            (lazy lexer)
GrammarA ==
    MkGrammar(FALSE, 1,
        <<NonTerm, Term(1)>>,
        << <<1, <<2>>>> >>,
        (0 :> NoMatch) @@ (1 :> Lit(<<97>>)),
        {97, 120})

\* S -> "a" G "c" | "a" "c" ; G a symbol parsed by a nested grammar
\* (gen_grammar), the skip lexeme being "x"; the driver feeds "a" and "x"
\* only                                               (lazy lexer)
GrammarSkipGen ==
    MkGrammar(FALSE, 1,
        <<NonTerm, Term(1), [NonTerm EXCEPT !.gen_grammar = TRUE], Term(2)>>,
        << <<1, <<2, 3, 4>>>>, <<1, <<2, 4>>>> >>,
        (0 :> Lit(<<120>>)) @@ (1 :> Lit(<<97>>)) @@ (2 :> Lit(<<99>>)),
        {97, 120})

\* S -> "a" B ; B = "c!" with max_tokens 1              (lazy lexer)
GrammarBudgetOnly ==
    MkGrammar(FALSE, 1,
        <<NonTerm, Term(1), [Term(2) EXCEPT !.max_tokens = 1]>>,
        << <<1, <<2, 3>>>> >>,
        (0 :> NoMatch) @@ (1 :> Lit(<<97>>)) @@ (2 :> Lit(<<99, 33>>)),
        {97, 99, 33, 120})

\* S -> "a" N ; N -> "c!", the symbol N with max_tokens 1   (lazy lexer)
GrammarGen ==
    MkGrammar(FALSE, 1,
        <<NonTerm, Term(1), [NonTerm EXCEPT !.max_tokens = 1], Term(2)>>,
        << <<1, <<2, 3>>>>, <<3, <<4>>>> >>,
        (0 :> NoMatch) @@ (1 :> Lit(<<97>>)) @@ (2 :> Lit(<<99, 33>>)),
        {97, 99, 33, 120})

\* S -> "a" X ; X -> "b", the last production n times over: the row after
\* "a" holds n + 1 items.  The flattened rules are written out, rule
\* position 1 being S -> . "a" X and 2 k + 2 the k-th X -> . "b"
\*                                                    (lazy lexer)
GrammarWide(n) ==
    [greedy |-> FALSE, start |-> 1,
     syms |-> <<NonTerm, Term(1), NonTerm, Term(2)>>,
     rhs |-> <<2, 3, NULL>>
                \o [i \in 1..(2 * n) |-> IF i % 2 = 1 THEN 4 ELSE NULL],
     lhs |-> <<1, 1, 1>> \o [i \in 1..(2 * n) |-> 3],
     rules |-> << <<1>>, <<>>, [k \in 1..n |-> 2 * k + 2], <<>> >>,
     lexemes |-> (0 :> NoMatch) @@ (1 :> Lit(<<97>>)) @@ (2 :> Lit(<<98>>)),
     alphabet |-> {97, 98, 120}]

\* S -> "!" T ; T = c | cc, a lexeme that may end at end-of-input
\*                                                    (greedy lexer)
GrammarEos ==
    MkGrammar(TRUE, 1,
        <<NonTerm, Term(1), Term(2)>>,
        << <<1, <<2, 3>>>> >>,
        (0 :> NoMatch)
            @@ (1 :> Lit(<<33>>))
            @@ (2 :> [Rx({<<99>>, <<99, 99>>}, 0) EXCEPT !.ends_at_eos = TRUE]),
        {33, 99, 120})

\* S -> A T ; A -> "a" | (empty) ; T -> "b" T | "c", the symbol A nullable;
\* the driver feeds the byte "a" only                  (lazy lexer)
GrammarNullable ==
    MkGrammar(FALSE, 1,
        <<NonTerm, [NonTerm EXCEPT !.is_nullable = TRUE], NonTerm,
          Term(1), Term(2), Term(3)>>,
        << <<1, <<2, 3>>>>, <<2, <<4>>>>, <<2, <<>>>>, <<3, <<5, 3>>>>,
           <<3, <<6>>>> >>,
        (0 :> NoMatch) @@ (1 :> Lit(<<97>>)) @@ (2 :> Lit(<<98>>))
            @@ (3 :> Lit(<<99>>)),
        {97})

\* S -> "a" B1 | "a" B2 "!" | "a" D1 | "a" D2 "!" ; B1 and B2 the lexeme "c"
\* with max_tokens 1 and 2, D1 and D2 the lexeme "d" with max_tokens 1 and
\* without budget; the driver feeds the byte "a" only   (lazy lexer)
GrammarBudgetTwo ==
    MkGrammar(FALSE, 1,
        <<NonTerm, Term(1), [Term(2) EXCEPT !.max_tokens = 1],
          [Term(2) EXCEPT !.max_tokens = 2], Term(3),
          [Term(4) EXCEPT !.max_tokens = 1], Term(4)>>,
        << <<1, <<2, 3>>>>, <<1, <<2, 4, 5>>>>, <<1, <<2, 6>>>>,
           <<1, <<2, 7, 5>>>> >>,
        (0 :> NoMatch) @@ (1 :> Lit(<<97>>)) @@ (2 :> Lit(<<99>>))
            @@ (3 :> Lit(<<33>>)) @@ (4 :> Lit(<<100>>)),
        {97})

\* S -> "a" B, the symbol S with max_tokens 1, B the lexeme "b" with
\* max_tokens 2, the skip lexeme being "x"; the driver feeds "a" and "x"
\* only                                               (lazy lexer)
GrammarSkipBudget ==
    MkGrammar(FALSE, 1,
        <<[NonTerm EXCEPT !.max_tokens = 1], Term(1),
          [Term(2) EXCEPT !.max_tokens = 2]>>,
        << <<1, <<2, 3>>>> >>,
        (0 :> Lit(<<120>>)) @@ (1 :> Lit(<<97>>)) @@ (2 :> Lit(<<98>>)),
        {97, 120})

\* S -> "!" T | "!" G1 Z | "!" G1 | "!" G2 A | "!" G2 ; T = c | cc, Z = "z",
\* A = "a", G1 and G2 parsed by nested grammars; the driver feeds "!" and
\* "c" only                                           (greedy lexer)
GrammarGenPending ==
    MkGrammar(TRUE, 1,
        <<NonTerm, Term(1), Term(2), [NonTerm EXCEPT !.gen_grammar = TRUE],
          Term(3), [NonTerm EXCEPT !.gen_grammar = TRUE], Term(4)>>,
        << <<1, <<2, 3>>>>, <<1, <<2, 4, 5>>>>, <<1, <<2, 4>>>>,
           <<1, <<2, 6, 7>>>>, <<1, <<2, 6>>>> >>,
        (0 :> NoMatch) @@ (1 :> Lit(<<33>>))
            @@ (2 :> Rx({<<99>>, <<99, 99>>}, 0)) @@ (3 :> Lit(<<122>>))
            @@ (4 :> Lit(<<97>>)),
        {33, 99})

\* S -> S "a" | A "b" ; A -> B ; B -> A | (empty) : left recursion and a
\* cycle of nullable symbols                          (lazy lexer)
GrammarCyclic ==
    MkGrammar(FALSE, 1,
        <<NonTerm, Term(1), Term(2), [NonTerm EXCEPT !.is_nullable = TRUE],
          [NonTerm EXCEPT !.is_nullable = TRUE]>>,
        << <<1, <<1, 2>>>>, <<1, <<4, 3>>>>, <<4, <<5>>>>, <<5, <<4>>>>,
           <<5, <<>>>> >>,
        (0 :> NoMatch) @@ (1 :> Lit(<<97>>)) @@ (2 :> Lit(<<98>>)),
        {97, 98})

\* S -> "a" S : every state has the one next byte "a", no sentence exists
GrammarRightRec ==
    MkGrammar(FALSE, 1, <<NonTerm, Term(1)>>,
        << <<1, <<2, 1>>>> >>,
        (0 :> NoMatch) @@ (1 :> Lit(<<97>>)),
        {97})

Grammars ==
    <<GrammarAbAc, GrammarHello, GrammarCapture, GrammarHiddenForced,
      GrammarHidden, GrammarGreedy, GrammarCaptureTwo, GrammarBudget,
      GrammarGen, GrammarWide(MAX_ROW - 1), GrammarWide(MAX_ROW),
      GrammarBudgetOnly, GrammarGreedyCapture, GrammarA, GrammarSkipGen,
      GrammarEos, GrammarNullable, GrammarBudgetTwo, GrammarSkipBudget,
      GrammarGenPending, GrammarCyclic, GrammarRightRec>>

\* the grammars that have a sentence: all but the last
WithSentence == 1..(Len(Grammars) - 1)

\* the grammars of Init: the recursive ones, the last two, are those of
\* InitAll only
Common == 1..(Len(Grammars) - 2)

(***************************************************************************)
(* The lexer (earley/lexer.rs, outside the parser file; modelled from its  *)
(* contract).  A DFA state is the derivative of every lexeme still         *)
(* possible: a function from lexeme index to the non-empty set of suffixes *)
(* that would complete it.  The dead state has no lexeme left.             *)
(***************************************************************************)
a_dead_state == [i \in {} |-> {}]

is_dead(st) == DOMAIN st = {}

\* the DFA's initial state for a set of allowed lexemes
initial_state(G, allowed) ==
    [i \in {j \in allowed \cap DOMAIN G.lexemes : G.lexemes[j].words # {}}
        |-> G.lexemes[i].words]

\* one DFA transition
transition(st, b) ==
    LET next(i) == {Tail(w) : w \in {v \in st[i] : v # <<>> /\ Head(v) = b}}
    IN  [i \in {j \in DOMAIN st : next(j) # {}} |-> next(i)]

start_state(G, allowed, first_byte) ==
    IF first_byte = None THEN initial_state(G, allowed)
    ELSE transition(initial_state(G, allowed), first_byte)

possible_lexemes(st) == DOMAIN st

\* the lexemes that match exactly the bytes consumed so far
accepting(st) == {i \in DOMAIN st : <<>> \in st[i]}

\* the state accepts and no byte can follow (NextByte::ForcedEOI)
forced_eoi(st) == ~is_dead(st) /\ \A i \in DOMAIN st : st[i] = {<<>>}

limit_state_to(st, allowed) == [i \in DOMAIN st \cap allowed |-> st[i]]

LexError == [kind |-> "Error"]
LexState(st, b) == [kind |-> "State", state |-> st, byte |-> b]
PreLexeme(idx, b, next_row, hidden) ==
    [kind |-> "Lexeme", idx |-> idx, byte |-> b, byte_next_row |-> next_row,
     hidden_len |-> hidden]
just_idx(idx) == PreLexeme(idx, None, FALSE, 0)

\* A lazy lexer ends a lexeme on the byte that completes it; a greedy lexer
\* ends it on the first byte that cannot extend it, and that byte starts the
\* next lexeme (byte_next_row).
advance(G, prev, byte) ==
    LET st == transition(prev, byte)
    IN  IF is_dead(st)
        THEN IF G.greedy /\ accepting(prev) # {}
             THEN PreLexeme(MinOf(accepting(prev)), byte, TRUE, 0)
             ELSE LexError
        ELSE IF ~G.greedy /\ accepting(st) # {}
             THEN LET idx == MinOf(accepting(st))
                  IN  PreLexeme(idx, byte, FALSE, G.lexemes[idx].hidden_len)
             ELSE LexState(st, byte)

try_lexeme_end(prev) ==
    IF accepting(prev) # {} THEN just_idx(MinOf(accepting(prev))) ELSE LexError

force_lexeme_end(prev) ==
    IF ~is_dead(prev) THEN just_idx(MinOf(possible_lexemes(prev))) ELSE LexError

check_for_single_byte_lexeme(st, b) ==
    IF forced_eoi(st)
    THEN PreLexeme(MinOf(possible_lexemes(st)), b, FALSE, 0)
    ELSE LexError

\* some lexeme that may end at end-of-input matches the bytes consumed
allows_eos(G, st) == \E i \in accepting(st) : G.lexemes[i].ends_at_eos

\* LexemeSpec::has_forced_bytes: the lexeme is a literal that starts with bytes
lexeme_has_forced_bytes(spec, bytes) ==
    spec.literal /\ \A w \in spec.words : IsPrefix(bytes, w)

(***************************************************************************)
(* Lexemes as the parser records them.                                     *)
(***************************************************************************)
Lexeme(idx, bytes, hidden_len) ==
    [idx |-> idx, bytes |-> bytes, hidden_len |-> hidden_len]

bogus == Lexeme(SKIP, <<>>, 0)

visible_bytes(lx) == SubSeq(lx.bytes, 1, Len(lx.bytes) - lx.hidden_len)

hidden_bytes(lx) ==
    SubSeq(lx.bytes, Len(lx.bytes) - lx.hidden_len + 1, Len(lx.bytes))

(***************************************************************************)
(* The parser's state.  The operations below are functions of a parser     *)
(* value p (the record Self packs the variables into) and return the       *)
(* parser value after the call, the call's result in p.ret.  A failed      *)
(* assertion, an out-of-range index or an explicit panic! aborts the       *)
(* process: p.panic names it and nothing runs afterwards.                  *)
(*                                                                         *)
(* Not modelled: Scratch.item_props (hidden_start is written but never     *)
(* read by the parser), ParserStats, last_collapse.  Scratch.ensure_items  *)
(* only reserves capacity; items holds the slots written so far.           *)
(***************************************************************************)
VARIABLES
    g,                  \* the grammar the parser was built for
    items,              \* scratch.items
    row_start,          \* scratch.row_start
    row_end,            \* scratch.row_end
    definitive,         \* scratch.definitive
    rows,               \* rows: [first_item, last_item, allowed_lexemes]
    row_infos,          \* row_infos
    lexer_stack,        \* lexer_stack: [row_idx, lexer_state, byte]
    captures,           \* captures: <<name, bytes>>
    trie_lexer_stack,   \* trie_lexer_stack
    trie_gen_grammar,   \* trie_gen_grammar: None or the symbol to scan
    trie_gen_grammar_accepting, \* trie_gen_grammar_accepting
    token_idx,          \* token_idx
    byte_idx,           \* byte_idx
    panic,              \* "" while the process runs, else what aborted it
    ret                 \* what the last call returned

Self ==
    [g |-> g, grammar |-> Grammars[g], items |-> items, row_start |-> row_start, row_end |-> row_end,
     definitive |-> definitive, rows |-> rows, row_infos |-> row_infos,
     lexer_stack |-> lexer_stack, captures |-> captures,
     trie_lexer_stack |-> trie_lexer_stack,
     trie_gen_grammar |-> trie_gen_grammar,
     trie_gen_grammar_accepting |-> trie_gen_grammar_accepting,
     token_idx |-> token_idx,
     byte_idx |-> byte_idx, panic |-> panic, ret |-> ret]

\* the aborted call returns nothing; FALSE stands for "no result"
Panic(p, msg) == [p EXCEPT !.panic = IF @ = "" THEN msg ELSE @, !.ret = FALSE]

Return(p, r) == [p EXCEPT !.ret = r]

Item(rule, start) == [rule |-> rule, start |-> start]

advance_dot(item) == [item EXCEPT !.rule = @ + 1]

item_indices(row) == row.first_item .. (row.last_item - 1)

\* the items of a row, in order
row_items(p, row) ==
    [k \in 1..(row.last_item - row.first_item) |-> p.items[row.first_item + k]]

lexer_state(p) == p.lexer_stack[Len(p.lexer_stack)]

num_rows(p) == lexer_state(p).row_idx + 1

curr_row(p) == p.rows[lexer_state(p).row_idx + 1]

LexerStateFrame(row_idx, st, byte) ==
    [row_idx |-> row_idx, lexer_state |-> st, byte |-> byte]

(***************************************************************************)
(* Scratch.                                                                *)
(***************************************************************************)
\* a new_row that starts the row at the first item slot
new_row_at_first_slot(p, pos) == [p EXCEPT !.row_start = 0, !.row_end = 0]

new_row(p, pos) == [p EXCEPT !.row_start = pos, !.row_end = pos]

just_add(p, item) ==
    [p EXCEPT !.items = IF p.row_end >= Len(@) THEN Append(@, item)
                        ELSE [@ EXCEPT ![p.row_end + 1] = item],
              !.row_end = @ + 1]

\* a find_item that finds only what the row holds twice
find_item_twice(p, item) ==
    \E i, j \in p.row_start .. (p.row_end - 1) :
        i # j /\ p.items[i + 1] = item /\ p.items[j + 1] = item

find_item(p, item) ==
    \E i \in p.row_start .. (p.row_end - 1) : p.items[i + 1] = item

add_unique(p, item) == IF find_item(p, item) THEN p ELSE just_add(p, item)

\* just_add of each item of a sequence, in order: the items fill the slots
\* from row_end on
just_add_all(p, its) ==
    [p EXCEPT
        !.items = [i \in 1..Max(Len(@), p.row_end + Len(its)) |->
                      IF i > p.row_end /\ i <= p.row_end + Len(its)
                      THEN its[i - p.row_end] ELSE @[i]],
        !.row_end = @ + Len(its)]

\* add_unique of each item of a sequence, in order: an item is added unless
\* the row holds it or an earlier item of the sequence is equal to it
\* a variant of add_unique that adds without looking for the item
add_all_unchecked(p, its) == just_add_all(p, its)

add_unique_all(p, its) ==
    Bind(Filter([k \in 1..Len(its) |-> k],
                LAMBDA k : /\ ~find_item(p, its[k])
                           /\ \A j \in 1..(k - 1) : its[j] # its[k]),
         LAMBDA ks : just_add_all(p, [j \in 1..Len(ks) |-> its[ks[j]]]))

(***************************************************************************)
(* Parser helpers.                                                         *)
(***************************************************************************)
pop_lexer_states(p, n) ==
    IF ~(Len(p.lexer_stack) > n) THEN Panic(p, "pop_lexer_states")
    ELSE [p EXCEPT !.lexer_stack = SubSeq(@, 1, Len(@) - n)]

assert_definitive(p) ==
    IF ~p.definitive THEN Panic(p, "assert_definitive: not definitive")
    ELSE IF num_rows(p) # Len(p.row_infos)
         THEN Panic(p, "assert_definitive: num_rows != row_infos")
         ELSE p

\* a variant of curr_row_bytes that leaves the bytes in the order of the
\* walk down the stack
curr_row_bytes_unreversed(p) ==
    LET n == Len(p.lexer_stack)
        row_idx == p.lexer_stack[n].row_idx
        mine(k) == \A j \in k..n : p.lexer_stack[j].row_idx = row_idx
        first == MinOf({k \in 1..n : mine(k)})
        frames == SubSeq(p.lexer_stack, first, n)
        some == Filter(frames, LAMBDA f : f.byte # None)
    IN  [k \in 1..Len(some) |-> some[Len(some) + 1 - k].byte]

\* the bytes of the frames on top of the stack that belong to the current row
curr_row_bytes(p) ==
    LET n == Len(p.lexer_stack)
        row_idx == p.lexer_stack[n].row_idx
        mine(k) == \A j \in k..n : p.lexer_stack[j].row_idx = row_idx
        first == MinOf({k \in 1..n : mine(k)})
        frames == SubSeq(p.lexer_stack, first, n)
        some == Filter(frames, LAMBDA f : f.byte # None)
    IN  [k \in 1..Len(some) |-> some[k].byte]

has_pending_lexeme_bytes(p) == Len(curr_row_bytes(p)) > 0

mk_lexeme(p, byte, pre_lexeme) ==
    Lexeme(pre_lexeme.idx,
           curr_row_bytes(p) \o (IF byte # None THEN <<byte>> ELSE <<>>),
           pre_lexeme.hidden_len)

has_forced_bytes(p, allowed_lexemes, bytes) ==
    /\ allowed_lexemes # {}
    /\ \A i \in allowed_lexemes :
          lexeme_has_forced_bytes(p.grammar.lexemes[i], bytes)

row_is_accepting(p) ==
    \E i \in item_indices(curr_row(p)) :
       /\ p.grammar.rhs[p.items[i + 1].rule] = NULL
       /\ p.grammar.lhs[p.items[i + 1].rule] = p.grammar.start

\* a map that keeps the budget of each lexeme's first occurrence
max_tokens_map_first(pairs) ==
    [lx \in {pairs[k][1] : k \in 1..Len(pairs)} |->
        pairs[MinOf({k \in 1..Len(pairs) : pairs[k][1] = lx})][2]]

\* the RowInfo map built at the end of push_row from the (lexeme, max_tokens)
\* pairs collected in agenda order
\* (an entry is replaced by a greater one: each lexeme keeps its maximum)
max_tokens_map(pairs) ==
    [lx \in {pairs[k][1] : k \in 1..Len(pairs)} |->
        CHOOSE mx \in {pairs[k][2] : k \in {j \in 1..Len(pairs) : pairs[j][1] = lx}} :
            \A k \in 1..Len(pairs) : pairs[k][1] = lx => pairs[k][2] <= mx]

remove_unlimited(m) == [lx \in {l \in DOMAIN m : m[l] # USIZE_MAX} |-> m[lx]]

RowInfo(lexeme, start_byte_idx, start, stop, max_tokens) ==
    [lexeme |-> lexeme, start_byte_idx |-> start_byte_idx,
     token_idx_start |-> start, token_idx_stop |-> stop,
     max_tokens |-> max_tokens]

(***************************************************************************)
(* push_row: predict and complete to a fixpoint over the agenda, then      *)
(* store the row.                                                          *)
(***************************************************************************)
\* the capture recorded when an item of a captured symbol completes
capture_bytes(p, item, curr_idx, lexeme) ==
    (IF item.start < curr_idx
     THEN Concat([k \in 1..(curr_idx - item.start) |->
                     visible_bytes(p.row_infos[item.start + k].lexeme)])
     ELSE <<>>) \o visible_bytes(lexeme)

\* the completer: the items of row start_pos waiting for lhs, dot advanced
completions(p, start_pos, lhs) ==
    Bind(Filter(row_items(p, p.rows[start_pos + 1]),
                LAMBDA it : p.grammar.rhs[it.rule] = lhs),
         LAMBDA waiting : [k \in 1..Len(waiting) |-> advance_dot(waiting[k])])

\* a predictor that starts its items one row late
predictions_one_row_late(p, sym, curr_idx) ==
    [k \in 1..Len(p.grammar.rules[sym]) |->
        Item(p.grammar.rules[sym][k], curr_idx + 1)]

\* the predictor: a fresh item for every rule of sym
predictions(p, sym, curr_idx) ==
    [k \in 1..Len(p.grammar.rules[sym]) |->
        Item(p.grammar.rules[sym][k], curr_idx)]

\* one agenda item whose rule is complete
agenda_complete(p, item, curr_idx, lexeme) ==
    Bind(p.grammar.syms[p.grammar.lhs[item.rule]], LAMBDA sd :
    Bind(IF p.definitive /\ sd.stop_capture_name # ""
         THEN [p EXCEPT !.captures =
                   Append(@, <<sd.stop_capture_name, hidden_bytes(lexeme)>>)]
         ELSE p, LAMBDA p1 :
    Bind(IF p.definitive /\ sd.capture_name # ""
         THEN IF item.start < curr_idx /\ curr_idx > Len(p.row_infos)
              THEN Panic(p1, "push_row: row_infos slice out of range")
              ELSE [p1 EXCEPT !.captures =
                       Append(@, <<sd.capture_name,
                                   capture_bytes(p, item, curr_idx, lexeme)>>)]
         ELSE p1, LAMBDA p2 :
    IF item.start < curr_idx
    THEN IF item.start >= Len(p2.rows)
         THEN Panic(p2, "push_row: rows index out of bounds")
         ELSE add_unique_all(p2, completions(p2, item.start,
                                             p.grammar.lhs[item.rule]))
    ELSE p2)))

\* an agenda turn that predicts and leaves the dot before a nullable symbol
agenda_predict_only(p, item, after_dot, curr_idx) ==
    add_unique_all(p, predictions(p, after_dot, curr_idx))

\* one agenda item with a symbol after the dot
agenda_predict(p, item, after_dot, curr_idx) ==
    Bind(p.grammar.syms[after_dot], LAMBDA sd :
    add_unique_all(
        IF sd.is_nullable
        THEN [add_unique(p, advance_dot(item)) EXCEPT !.captures =
                 IF p.definitive /\ sd.capture_name # ""
                 THEN Append(@, <<sd.capture_name, <<>>>>)
                 ELSE @]
        ELSE p,
        predictions(p, after_dot, curr_idx)))

\* one turn of the agenda loop; r holds the parser, the allowed lexemes and
\* the (lexeme, max_tokens) pairs collected so far
agenda_item(r, curr_idx, agenda_ptr, lexeme) ==
    Bind(r.p.items[agenda_ptr + 1], LAMBDA item :
    Bind(r.p.grammar.rhs[item.rule], LAMBDA after_dot :
    IF after_dot = NULL
    THEN [r EXCEPT !.p = agenda_complete(r.p, item, curr_idx, lexeme)]
    ELSE Bind(r.p.grammar.syms[after_dot], LAMBDA sym_data :
         [p |-> agenda_predict(r.p, item, after_dot, curr_idx),
          allowed |-> IF sym_data.lexeme # None
                      THEN r.allowed \cup {sym_data.lexeme} ELSE r.allowed,
          max_tokens |->
              IF sym_data.lexeme # None /\ r.p.definitive
              THEN Append(r.max_tokens,
                          <<sym_data.lexeme, sym_data.max_tokens>>)
              ELSE r.max_tokens])))

\* the turns for the agenda items lo .. hi - 1, in order (split in halves)
RECURSIVE agenda_range(_, _, _, _, _)
agenda_range(r, curr_idx, lo, hi, lexeme) ==
    IF lo >= hi \/ r.p.panic # "" THEN r
    ELSE IF hi - lo = 1 THEN agenda_item(r, curr_idx, lo, lexeme)
    ELSE agenda_range(
             agenda_range(r, curr_idx, lo, (lo + hi) \div 2, lexeme),
             curr_idx, (lo + hi) \div 2, hi, lexeme)

\* the agenda loop: while agenda_ptr < row_end, the items added by a turn
\* being processed after those present
RECURSIVE push_row_agenda(_, _, _, _)
push_row_agenda(r, curr_idx, agenda_ptr, lexeme) ==
    IF agenda_ptr >= r.p.row_end \/ r.p.panic # "" THEN r
    ELSE push_row_agenda(
             agenda_range(r, curr_idx, agenda_ptr, r.p.row_end, lexeme),
             curr_idx, r.p.row_end, lexeme)

\* storing the row (and, in definitive mode, its RowInfo) once the agenda is
\* empty
\* store_row with the RowInfo pushed in speculative mode too
store_row_any_mode(p, allowed, max_tokens) ==
    Bind(num_rows(p), LAMBDA idx :
    Bind([first_item |-> p.row_start, last_item |-> p.row_end,
          allowed_lexemes |-> allowed \cup {SKIP}], LAMBDA row :
    [p EXCEPT
        !.rows = IF Len(@) = 0 \/ Len(@) = idx THEN Append(@, row)
                 ELSE [@ EXCEPT ![idx + 1] = row],
        !.row_infos =
            Append(SubSeq(@, 1, Min(Len(@), idx)),
                   RowInfo(bogus, p.byte_idx, p.token_idx, p.token_idx, <<>>)),
        !.ret = TRUE]))

\* store_row without the SKIP bit
store_row_skip_unset(p, allowed, max_tokens) ==
    Bind(num_rows(p), LAMBDA idx :
    Bind([first_item |-> p.row_start, last_item |-> p.row_end,
          allowed_lexemes |-> allowed], LAMBDA row :
    IF Len(p.rows) # 0 /\ Len(p.rows) # idx /\ idx >= Len(p.rows)
    THEN Panic(p, "push_row: rows index out of range")
    ELSE [p EXCEPT
            !.rows = IF Len(@) = 0 \/ Len(@) = idx THEN Append(@, row)
                     ELSE [@ EXCEPT ![idx + 1] = row],
            !.row_infos =
                IF p.definitive
                THEN Append(IF Len(@) > idx THEN SubSeq(@, 1, idx) ELSE @,
                            RowInfo(bogus, p.byte_idx, p.token_idx, p.token_idx,
                                remove_unlimited(max_tokens_map(max_tokens))))
                ELSE @,
            !.ret = TRUE]))

store_row(p, allowed, max_tokens) ==
    Bind(num_rows(p), LAMBDA idx :
    Bind([first_item |-> p.row_start, last_item |-> p.row_end,
          allowed_lexemes |-> allowed \cup {SKIP}], LAMBDA row :
    IF Len(p.rows) # 0 /\ Len(p.rows) # idx /\ idx >= Len(p.rows)
    THEN Panic(p, "push_row: rows index out of range")
    ELSE [p EXCEPT
            !.rows = IF Len(@) = 0 \/ Len(@) = idx THEN Append(@, row)
                     ELSE [@ EXCEPT ![idx + 1] = row],
            !.row_infos =
                IF p.definitive
                THEN Append(IF Len(@) > idx THEN SubSeq(@, 1, idx) ELSE @,
                            RowInfo(bogus, p.byte_idx, p.token_idx, p.token_idx,
                                remove_unlimited(max_tokens_map(max_tokens))))
                ELSE @,
            !.ret = TRUE]))

push_row(p, curr_idx, agenda_ptr, lexeme) ==
    Bind(push_row_agenda([p |-> p, allowed |-> {}, max_tokens |-> <<>>],
                         curr_idx, agenda_ptr, lexeme), LAMBDA r :
    IF r.p.panic # "" THEN r.p
    ELSE IF r.p.row_end - r.p.row_start = 0 THEN Return(r.p, FALSE)
    ELSE store_row(r.p, r.allowed, r.max_tokens))

(***************************************************************************)
(* scan and scan_skip_lexeme.                                              *)
(***************************************************************************)
\* the seeds of scan: the current row's items whose next symbol is the
\* scanned lexeme, dot advanced
scan_seeds(p, row, lexeme) ==
    Bind(Filter(row_items(p, row),
                LAMBDA it :
                    /\ p.grammar.rhs[it.rule] # NULL
                    /\ p.grammar.syms[p.grammar.rhs[it.rule]].lexeme
                           = lexeme.idx),
         LAMBDA hit : [k \in 1..Len(hit) |-> advance_dot(hit[k])])

scan(p, lexeme) ==
    Bind(p.rows[num_rows(p)], LAMBDA row :
    Bind(just_add_all(new_row(p, row.last_item), scan_seeds(p, row, lexeme)),
         LAMBDA p1 : push_row(p1, num_rows(p1), p1.row_start, lexeme)))

\* a scan_skip_lexeme that keeps what push_row computed for the row
scan_skip_lexeme_plain(p, lexeme) ==
    Bind(curr_row(p), LAMBDA src :
    IF src.last_item - src.first_item = 0 THEN Return(p, FALSE)
    ELSE
    Bind(just_add_all(new_row(p, src.last_item), row_items(p, src)), LAMBDA p1 :
    push_row(p1, num_rows(p1), p1.row_end, lexeme)))

scan_skip_lexeme(p, lexeme) ==
    Bind(curr_row(p), LAMBDA src :
    IF src.last_item - src.first_item = 0 THEN Return(p, FALSE)
    ELSE
    Bind(just_add_all(new_row(p, src.last_item), row_items(p, src)), LAMBDA p1 :
    Bind(push_row(p1, num_rows(p1), p1.row_end, lexeme), LAMBDA p2 :
    Bind(num_rows(p2), LAMBDA added_row_idx :
    IF p2.panic # "" THEN p2
    ELSE IF ~p2.ret THEN Panic(p2, "scan_skip_lexeme: push_res")
    ELSE IF p2.definitive /\ Len(p2.row_infos) < added_row_idx + 1
    THEN Panic(p2, "scan_skip_lexeme: row_infos index")
    ELSE [p2 EXCEPT
            !.rows[added_row_idx + 1].allowed_lexemes = src.allowed_lexemes,
            !.row_infos =
                IF p2.definitive
                THEN [@ EXCEPT ![added_row_idx + 1].max_tokens =
                          p2.row_infos[added_row_idx].max_tokens]
                ELSE @]))))

\* a variant of lexer_state_for_added_row whose frame, when no byte starts the
\* added row, addresses the row after it
added_row_frame_one_up(p, lexeme, transition_byte) ==
    Bind(num_rows(p), LAMBDA added_row :
    IF Len(p.rows) < added_row + 1
    THEN [p |-> Panic(p, "lexer_state_for_added_row: rows index"),
          no_hidden |-> LexerStateFrame(added_row, a_dead_state, None)]
    ELSE [p |-> IF p.definitive
                THEN IF Len(p.row_infos) < added_row
                     THEN Panic(p, "lexer_state_for_added_row: row_infos index")
                     ELSE [p EXCEPT !.row_infos[added_row].lexeme = lexeme]
                ELSE p,
          no_hidden |->
              LexerStateFrame(IF transition_byte = None THEN added_row + 1
                              ELSE added_row,
                  start_state(p.grammar, p.rows[added_row + 1].allowed_lexemes,
                              transition_byte),
                  transition_byte)])

(***************************************************************************)
(* Advancing the parser with a completed lexeme.                           *)
(***************************************************************************)
\* the frame for the row just added (the stack is not yet updated, so that
\* row is rows[num_rows()]); in definitive mode the scanned lexeme is saved
\* in the RowInfo of the row it was scanned from
lexer_state_for_added_row(p, lexeme, transition_byte) ==
    Bind(num_rows(p), LAMBDA added_row :
    IF Len(p.rows) < added_row + 1
    THEN [p |-> Panic(p, "lexer_state_for_added_row: rows index"),
          no_hidden |-> LexerStateFrame(added_row, a_dead_state, None)]
    ELSE [p |-> IF p.definitive
                THEN IF Len(p.row_infos) < added_row
                     THEN Panic(p, "lexer_state_for_added_row: row_infos index")
                     ELSE [p EXCEPT !.row_infos[added_row].lexeme = lexeme]
                ELSE p,
          no_hidden |->
              LexerStateFrame(added_row,
                  start_state(p.grammar, p.rows[added_row + 1].allowed_lexemes,
                              transition_byte),
                  transition_byte)])

\* re-advancing the lexer over the forced hidden bytes, one frame per byte
RECURSIVE replay_hidden(_, _, _, _)
replay_hidden(p, st, bytes, no_hidden) ==
    IF bytes = <<>> \/ p.panic # "" THEN p
    ELSE Bind(advance(p.grammar, st, Head(bytes)), LAMBDA res :
         IF res.kind = "Error" THEN Panic(p, "hidden byte failed")
         ELSE IF res.kind = "Lexeme"
         THEN Panic(p, "hidden byte produced lexeme")
         ELSE replay_hidden(
                  [p EXCEPT !.lexer_stack =
                      Append(@, LexerStateFrame(no_hidden.row_idx, res.state,
                                                Head(bytes)))],
                  res.state, Tail(bytes), no_hidden))

handle_hidden_bytes(p, no_hidden, lexeme_byte, pre_lexeme) ==
    Bind(p.rows[num_rows(p) + 1].allowed_lexemes, LAMBDA added_row_lexemes :
    Bind(mk_lexeme(p, lexeme_byte, pre_lexeme), LAMBDA lexeme :
    Bind(start_state(p.grammar, added_row_lexemes, None), LAMBDA lexer_state0 :
    IF p.grammar.greedy THEN Panic(p, "handle_hidden_bytes: greedy lexer")
    ELSE IF Len(lexeme.bytes) < pre_lexeme.hidden_len
    THEN Panic(p, "handle_hidden_bytes: hidden_len")
    ELSE IF has_forced_bytes(p, added_row_lexemes, hidden_bytes(lexeme))
    THEN replay_hidden(pop_lexer_states(p, Len(hidden_bytes(lexeme)) - 1),
                       lexer_state0, hidden_bytes(lexeme), no_hidden)
    ELSE [p EXCEPT !.lexer_stack =
             Append(@, LexerStateFrame(no_hidden.row_idx,
                           IF p.definitive THEN lexer_state0 ELSE a_dead_state,
                           None))])))

RECURSIVE advance_parser(_, _)
advance_parser(p, pre_lexeme) ==
    Bind(IF pre_lexeme.byte_next_row THEN pre_lexeme.byte ELSE None,
         LAMBDA transition_byte :
    Bind(IF pre_lexeme.byte_next_row THEN None ELSE pre_lexeme.byte,
         LAMBDA lexeme_byte :
    Bind(IF p.definitive THEN mk_lexeme(p, lexeme_byte, pre_lexeme)
         ELSE Lexeme(pre_lexeme.idx, <<>>, 0), LAMBDA lexeme :
    Bind(IF lexeme.idx = SKIP THEN scan_skip_lexeme(p, lexeme)
         ELSE scan(p, lexeme), LAMBDA scanned :
    IF scanned.panic # "" THEN scanned
    ELSE IF ~scanned.ret THEN Return(scanned, FALSE)
    ELSE
    Bind(lexer_state_for_added_row(scanned, lexeme, transition_byte),
         LAMBDA added :
    IF added.p.panic # "" THEN added.p
    ELSE IF pre_lexeme.hidden_len > 0
    THEN Bind(handle_hidden_bytes(added.p, added.no_hidden, lexeme_byte,
                                  pre_lexeme), LAMBDA p2 :
         IF p2.panic # "" THEN p2
         ELSE IF p2.definitive THEN Return(assert_definitive(p2), TRUE)
         ELSE Return(p2, TRUE))
    ELSE IF pre_lexeme.byte_next_row /\ is_dead(added.no_hidden.lexer_state)
    THEN Return(added.p, FALSE)
    ELSE IF /\ transition_byte # None
            /\ check_for_single_byte_lexeme(added.no_hidden.lexer_state,
                                            transition_byte).kind = "Lexeme"
    THEN Bind(advance_parser(
                  [added.p EXCEPT !.lexer_stack =
                      Append(@, [added.no_hidden EXCEPT !.byte = None])],
                  check_for_single_byte_lexeme(added.no_hidden.lexer_state,
                                               transition_byte)), LAMBDA r :
         IF r.panic # "" THEN r
         ELSE IF r.ret
         THEN [r EXCEPT !.lexer_stack =
                  Append(SubSeq(@, 1, Len(@) - 2), @[Len(@)])]
         ELSE [r EXCEPT !.lexer_stack = SubSeq(@, 1, Len(@) - 1)])
    ELSE Bind([added.p EXCEPT !.lexer_stack = Append(@, added.no_hidden)],
              LAMBDA p2 :
         IF p2.definitive THEN Return(assert_definitive(p2), TRUE)
         ELSE Return(p2, TRUE)))))))

advance_lexer_or_parser(p, lex_result, curr) ==
    IF lex_result.kind = "State"
    THEN [p EXCEPT !.lexer_stack =
             Append(@, LexerStateFrame(curr.row_idx, lex_result.state,
                                       lex_result.byte)),
          !.ret = TRUE]
    ELSE IF lex_result.kind = "Error" THEN Return(p, FALSE)
    ELSE advance_parser(p, lex_result)

try_push_byte_definitive(p, byte) ==
    IF ~p.definitive THEN Panic(p, "try_push_byte_definitive: speculative")
    ELSE advance_lexer_or_parser(p,
             IF byte = None THEN force_lexeme_end(lexer_state(p).lexer_state)
             ELSE advance(p.grammar, lexer_state(p).lexer_state, byte),
             lexer_state(p))

try_push_byte(p, byte) ==
    IF p.definitive THEN Panic(p, "try_push_byte: definitive")
    ELSE advance_lexer_or_parser(p,
             advance(p.grammar, lexer_state(p).lexer_state, byte),
             lexer_state(p))

pop_bytes(p, num) == pop_lexer_states(p, num)

\* a flush_lexer that asks the lexer whether or not bytes are pending
flush_lexer_unguarded(p) ==
    advance_lexer_or_parser(p, try_lexeme_end(lexer_state(p).lexer_state),
                            lexer_state(p))

flush_lexer(p) ==
    IF ~has_pending_lexeme_bytes(p) THEN Return(p, TRUE)
    ELSE advance_lexer_or_parser(p,
             try_lexeme_end(lexer_state(p).lexer_state), lexer_state(p))

(***************************************************************************)
(* Speculation.                                                            *)
(***************************************************************************)
\* a variant of trie_started_inner that saves one frame less than the depth
trie_started_saves_less(p) ==
    Bind(assert_definitive(p), LAMBDA p1 :
    IF p1.panic # "" THEN p1
    ELSE [p1 EXCEPT !.trie_lexer_stack = Len(p.lexer_stack) - 1,
                    !.definitive = FALSE])

trie_started_inner(p) ==
    Bind(assert_definitive(p), LAMBDA p1 :
    IF p1.panic # "" THEN p1
    ELSE [p1 EXCEPT !.trie_lexer_stack = Len(p.lexer_stack),
                    !.definitive = FALSE])

trie_finished_inner(p) ==
    IF p.definitive THEN Panic(p, "trie_finished: definitive")
    ELSE IF ~(Len(p.row_infos) <= num_rows(p))
    THEN Panic(p, "trie_finished: row_infos > num_rows")
    ELSE IF Len(p.lexer_stack) < p.trie_lexer_stack
    THEN Panic(p, "trie_finished: stack below the saved depth")
    ELSE Bind(pop_lexer_states(p, Len(p.lexer_stack) - p.trie_lexer_stack),
              LAMBDA p1 :
         IF p1.panic # "" THEN p1
         ELSE assert_definitive([p1 EXCEPT !.definitive = TRUE]))

\* run_speculative(|s| s.flush_lexer() && s.row_is_accepting())
is_accepting(p) ==
    Bind(trie_started_inner(p), LAMBDA p1 :
    IF p1.panic # "" THEN p1
    ELSE
    Bind(flush_lexer(p1), LAMBDA p2 :
    IF p2.panic # "" THEN p2
    ELSE
    Bind(trie_finished_inner(p2), LAMBDA p3 :
    IF p3.panic # "" THEN p3
    ELSE Return(p3, p2.ret /\ row_is_accepting(p2)))))

\* the loop of forced_byte over the bytes b..hi; r holds the parser, the
\* accepted byte seen so far and whether the loop has returned
RECURSIVE forced_byte_loop(_, _, _)
forced_byte_loop(r, b, hi) ==
    IF b > hi \/ r.stop THEN r
    ELSE Bind(try_push_byte(r.p, b), LAMBDA q :
         Bind(IF q.panic = "" /\ q.ret THEN pop_bytes(q, 1) ELSE q, LAMBDA q1 :
         IF q1.panic # "" THEN [r EXCEPT !.p = q1, !.stop = TRUE]
         ELSE IF q.ret /\ r.byte_sym # None
         THEN [p |-> q1, byte_sym |-> None, stop |-> TRUE]
         ELSE forced_byte_loop(
                  [r EXCEPT !.p = q1,
                            !.byte_sym = IF q.ret THEN b ELSE @],
                  b + 1, hi)))

\* for b in 0..=255, sixteen bytes at a time
RECURSIVE forced_byte_all(_, _)
forced_byte_all(r, b) ==
    IF b > 255 \/ r.stop THEN r
    ELSE forced_byte_all(forced_byte_loop(r, b, b + 15), b + 16)

forced_byte(p) ==
    Bind(is_accepting(p), LAMBDA a :
    IF a.panic # "" THEN a
    ELSE IF a.ret THEN Return(a, None)
    ELSE
    Bind(trie_started_inner(a), LAMBDA p1 :
    IF p1.panic # "" THEN p1
    ELSE
    Bind(forced_byte_all([p |-> p1, byte_sym |-> None, stop |-> FALSE], 0),
         LAMBDA r :
    IF r.p.panic # "" THEN r.p
    ELSE
    Bind(trie_finished_inner(r.p), LAMBDA p3 :
    IF p3.panic # "" THEN p3
    ELSE Return(p3, r.byte_sym)))))

(***************************************************************************)
(* scan_gen_grammar and scan_model_variable.                               *)
(***************************************************************************)
\* the current row's items whose symbol after the dot satisfies Test, dot
\* advanced
advanced_where(p, Test(_)) ==
    Bind(Filter(row_items(p, curr_row(p)),
                LAMBDA it : /\ p.grammar.rhs[it.rule] # NULL
                            /\ Test(p.grammar.rhs[it.rule])),
         LAMBDA hit : [k \in 1..Len(hit) |-> advance_dot(hit[k])])

scan_gen_grammar_inner(p, symidx, inner_bytes) ==
    Bind(add_unique_all(new_row(p, curr_row(p).last_item),
                        advanced_where(p, LAMBDA s : s = symidx)), LAMBDA p1 :
    IF p1.row_end - p1.row_start = 0
    THEN Panic(p1, "scan_gen_grammar: row_len == 0")
    ELSE
    Bind(push_row(p1, num_rows(p1), p1.row_start,
                  Lexeme(SKIP, inner_bytes, 0)), LAMBDA p2 :
    IF p2.panic # "" THEN p2
    ELSE IF ~p2.ret THEN Return(p2, FALSE)
    ELSE
    Bind(lexer_state_for_added_row(p2, Lexeme(SKIP, inner_bytes, 0), None),
         LAMBDA added :
    IF added.p.panic # "" THEN added.p
    ELSE [added.p EXCEPT !.lexer_stack = Append(@, added.no_hidden),
                         !.ret = TRUE])))

scan_gen_grammar(p, symidx, inner_bytes) ==
    Bind(assert_definitive(p), LAMBDA p1 :
    IF p1.panic # "" THEN p1
    ELSE scan_gen_grammar_inner(p1, symidx, inner_bytes))

\* a lexer_allows_eos that does not ask the lexer
lexer_allows_eos_pending_only(p) == has_pending_lexeme_bytes(p)

lexer_allows_eos(p) ==
    IF has_pending_lexeme_bytes(p)
    THEN allows_eos(p.grammar, lexer_state(p).lexer_state)
    ELSE FALSE

scan_model_variable(p, mv) ==
    Bind(assert_definitive(p), LAMBDA p0 :
    IF p0.panic # "" THEN p0
    ELSE
    Bind(flush_lexer(p0), LAMBDA p1 :
    IF p1.panic # "" THEN p1
    ELSE IF ~p1.ret THEN Return(p1, FALSE)
    ELSE IF mv = "eos" /\ lexer_allows_eos(p) THEN Return(p1, TRUE)
    ELSE
    Bind(add_unique_all(new_row(p1, curr_row(p1).last_item),
             advanced_where(p1,
                 LAMBDA s : p.grammar.syms[s].model_variable = mv)), LAMBDA p2 :
    IF p2.row_end - p2.row_start = 0 THEN Return(p2, FALSE)
    ELSE push_row(p2, num_rows(p2), p2.row_start, bogus))))

(***************************************************************************)
(* force_bytes.                                                            *)
(***************************************************************************)
\* the while-let loop of force_bytes; bytes are the bytes committed so far
RECURSIVE force_bytes_loop(_, _)
force_bytes_loop(p, bytes) ==
    Bind(forced_byte(p), LAMBDA f :
    IF f.panic # "" THEN f
    ELSE IF f.ret = None THEN Return(f, bytes)
    ELSE
    Bind(try_push_byte_definitive(f, f.ret), LAMBDA q :
    IF q.panic # "" THEN q
    ELSE IF ~q.ret THEN Return(q, bytes)
    ELSE force_bytes_loop(q, Append(bytes, f.ret))))

force_bytes(p) ==
    Bind(assert_definitive(p), LAMBDA p1 :
    IF p1.panic # "" THEN p1 ELSE force_bytes_loop(p1, <<>>))

(***************************************************************************)
(* apply_tokens.  The token trie is outside the parser file: a token is    *)
(* an index into Vocab, the vocabulary's byte strings.                     *)
(***************************************************************************)
Vocab ==
    << <<97>>, <<97, 98>>, <<99>>, <<104, 101, 108>>, <<108, 111>>, <<33>> >>

token(t) == Vocab[t]

\* usize as isize: usize::MAX reads as -1
AsIsize(x) == IF x = USIZE_MAX THEN 0 - 1 ELSE x

apply_token_idx(ri, idx) ==
    [ri EXCEPT !.token_idx_start = Min(@, idx),
               !.token_idx_stop = Max(@, idx)]

\* a byte collection that forgets the bytes pending in the lexer
RECURSIVE get_bytes_loop_no_pending(_, _, _, _)
get_bytes_loop_no_pending(p, idx, indices, allbytes) ==
    IF idx >= Len(p.row_infos)
    THEN [p |-> p, indices |-> indices, allbytes |-> allbytes]
    ELSE Bind(visible_bytes(p.row_infos[idx + 1].lexeme), LAMBDA bytes :
         get_bytes_loop_no_pending(
             [p EXCEPT !.row_infos[idx + 1].start_byte_idx = Len(allbytes)],
             idx + 1,
             indices \o [k \in 1..Len(bytes) |-> idx],
             allbytes \o bytes))

RECURSIVE get_bytes_loop(_, _, _, _)
get_bytes_loop(p, idx, indices, allbytes) ==
    IF idx >= Len(p.row_infos)
    THEN [p |-> p, indices |-> indices, allbytes |-> allbytes]
    ELSE Bind(IF /\ visible_bytes(p.row_infos[idx + 1].lexeme) = <<>>
                 /\ idx = num_rows(p) - 1
              THEN curr_row_bytes(p)
              ELSE visible_bytes(p.row_infos[idx + 1].lexeme), LAMBDA bytes :
         get_bytes_loop(
             [p EXCEPT !.row_infos[idx + 1].start_byte_idx = Len(allbytes)],
             idx + 1,
             indices \o [k \in 1..Len(bytes) |-> idx],
             allbytes \o bytes))

get_bytes_and_lexeme_indices(p) ==
    Bind(assert_definitive(p), LAMBDA p1 :
    IF p1.panic # "" THEN [p |-> p1, indices |-> <<>>, allbytes |-> <<>>]
    ELSE get_bytes_loop(p1, 0, <<>>, <<>>))

get_bytes(p) ==
    Bind(get_bytes_and_lexeme_indices(p), LAMBDA r : Return(r.p, r.allbytes))

\* the bytes of the tokens in order, each with its token's index and whether
\* it is the last byte of its token
RECURSIVE token_bytes(_, _)
token_bytes(tokens, tok_idx) ==
    IF tok_idx >= Len(tokens) THEN <<>>
    ELSE Bind(token(tokens[tok_idx + 1]), LAMBDA tok_bytes :
         [k \in 1..Len(tok_bytes) |->
             [tok_idx |-> tok_idx, b |-> tok_bytes[k],
              last |-> (k - 1 = Len(tok_bytes) - 1)]]
         \o token_bytes(tokens, tok_idx + 1))

\* a variant of the check on max_tokens that enforces no budget
max_tokens_unchecked(p, row_idx) == Return(p, "")

\* apply_tokens, after a byte was pushed: the check on max_tokens when the
\* token ends in the row it started in
max_tokens_check(p, row_idx) ==
    Bind(p.row_infos[row_idx + 1], LAMBDA info :
    Bind(Max(0, p.token_idx + 1 - AsIsize(info.token_idx_start)),
         LAMBDA info_tokens :
    Bind(lexer_state(p).lexer_state, LAMBDA lex_state :
    Bind({idx \in possible_lexemes(lex_state) :
             info_tokens < (IF idx \in DOMAIN info.max_tokens
                            THEN info.max_tokens[idx] ELSE USIZE_MAX)},
         LAMBDA limit :
    IF Cardinality(possible_lexemes(lex_state) \ limit) = 0 THEN Return(p, "")
    ELSE IF is_dead(limit_state_to(lex_state, limit))
    THEN Bind(try_push_byte_definitive(p, None), LAMBDA eoi :
         IF eoi.panic # "" THEN eoi
         ELSE IF ~eoi.ret THEN Return(eoi, "parse reject on max_tokens")
         ELSE Return(eoi, ""))
    ELSE Return([p EXCEPT !.lexer_stack[Len(p.lexer_stack)].lexer_state =
                              limit_state_to(lex_state, limit)], "")))))

\* a variant of the row limit that also refuses a row of MAX_ROW items
row_at_limit(p) == Cardinality(item_indices(curr_row(p))) >= MAX_ROW

\* apply_tokens: item_count > MAX_ROW
row_over_limit(p) == Cardinality(item_indices(curr_row(p))) > MAX_ROW

\* apply_tokens, a byte beyond the bytes already parsed
apply_new_byte(p, e, byte_pos) ==
    Bind(num_rows(p) - 1, LAMBDA row_idx :
    Bind(try_push_byte_definitive(
             [p EXCEPT !.token_idx = e.tok_idx, !.byte_idx = byte_pos,
                       !.row_infos[row_idx + 1] = apply_token_idx(@, e.tok_idx)],
             e.b), LAMBDA p2 :
    IF p2.panic # "" THEN p2
    ELSE IF ~p2.ret THEN Return(p2, "parse reject")
    ELSE
    Bind(IF e.last /\ row_idx = num_rows(p2) - 1
         THEN max_tokens_check(p2, row_idx) ELSE Return(p2, ""), LAMBDA p3 :
    IF p3.panic # "" \/ p3.ret # "" THEN p3
    ELSE IF row_over_limit(p3)
    THEN Return(p3, "Err: current row has too many items")
    ELSE p3)))

\* apply_tokens, a byte inside the bytes already parsed: the loop that moves
\* last_lexeme up to the byte's row
RECURSIVE apply_seen_byte(_, _, _, _)
apply_seen_byte(p, tok_idx, last_lexeme, target) ==
    IF last_lexeme >= Len(p.row_infos)
    THEN [p |-> Panic(p, "apply_tokens: row_infos index out of bounds"),
          last_lexeme |-> last_lexeme]
    ELSE Bind([p EXCEPT !.row_infos[last_lexeme + 1] =
                            apply_token_idx(@, tok_idx)], LAMBDA p1 :
         IF last_lexeme >= target
         THEN [p |-> p1, last_lexeme |-> last_lexeme]
         ELSE apply_seen_byte(p1, tok_idx, last_lexeme + 1, target))

RECURSIVE apply_tokens_loop(_, _, _, _, _, _)
apply_tokens_loop(p, todo, num_skip, byte_pos, last_lexeme, grm) ==
    IF todo = <<>> THEN [p |-> Return(p, ""), last_lexeme |-> last_lexeme]
    ELSE IF num_skip > 0
    THEN apply_tokens_loop(p, Tail(todo), num_skip - 1, byte_pos,
                           last_lexeme, grm)
    ELSE IF byte_pos >= Len(grm.allbytes)
    THEN Bind(apply_new_byte(p, Head(todo), byte_pos), LAMBDA pushed :
         IF pushed.panic # "" \/ pushed.ret # ""
         THEN [p |-> pushed, last_lexeme |-> last_lexeme]
         ELSE apply_tokens_loop(pushed, Tail(todo), 0, byte_pos + 1,
                                num_rows(pushed) - 1, grm))
    ELSE Bind(apply_seen_byte(p, Head(todo).tok_idx, last_lexeme,
                              grm.indices[byte_pos + 1]), LAMBDA seen :
         IF seen.p.panic # "" THEN seen
         ELSE IF grm.allbytes[byte_pos + 1] # Head(todo).b
         THEN [p |-> Return(seen.p, "static reject"),
               last_lexeme |-> seen.last_lexeme]
         ELSE apply_tokens_loop(seen.p, Tail(todo), 0, byte_pos + 1,
                                seen.last_lexeme, grm))

apply_tokens(p, tokens, num_skip) ==
    Bind(assert_definitive(p), LAMBDA p0 :
    IF p0.panic # "" THEN p0
    ELSE
    Bind(get_bytes_and_lexeme_indices(
             [p0 EXCEPT !.row_infos =
                 [k \in 1..Len(@) |->
                     [@[k] EXCEPT !.token_idx_start = USIZE_MAX,
                                  !.token_idx_stop = 0]]]), LAMBDA grm :
    IF grm.p.panic # "" THEN grm.p
    ELSE
    Bind(apply_tokens_loop(grm.p, token_bytes(tokens, 0), num_skip, 0, 0, grm),
         LAMBDA r :
    IF r.p.panic # "" \/ r.p.ret # "" THEN r.p
    ELSE [r.p EXCEPT
             !.token_idx = Len(tokens),
             !.row_infos =
                 [k \in 1..Len(@) |->
                     IF k - 1 >= r.last_lexeme
                     THEN apply_token_idx(@[k], Len(tokens)) ELSE @[k]],
             !.ret = ""])))

(***************************************************************************)
(* filter_max_tokens.  usize is modelled by 0 .. USIZE_MAX; a subtraction  *)
(* below zero aborts a build with overflow checks and wraps around in a    *)
(* build without them (wraps tells which build runs).                      *)
(***************************************************************************)
\* self.token_idx - start_token_idx, when it wraps
wrapping_sub(a, b) == IF a >= b THEN a - b ELSE a - b + USIZE_MAX + 1

\* the item is over the budget of its left-hand side; row_infos holds the
\* sentinel
over_budget(p, item) ==
    Bind(p.grammar.syms[p.grammar.lhs[item.rule]].max_tokens, LAMBDA max_tokens :
    /\ max_tokens # USIZE_MAX
    /\ wrapping_sub(p.token_idx, p.row_infos[item.start + 2].token_idx_start)
          >= max_tokens)

\* what aborts the sweep of one row ("" when nothing does)
filter_row_panic(p, its, wraps) ==
    IF \E k \in 1..Len(its) :
          /\ p.grammar.syms[p.grammar.lhs[its[k].rule]].max_tokens # USIZE_MAX
          /\ its[k].start + 1 >= Len(p.row_infos)
    THEN "filter_max_tokens: row_infos index out of bounds"
    ELSE IF /\ ~wraps
            /\ \E k \in 1..Len(its) :
                  /\ p.grammar.syms[p.grammar.lhs[its[k].rule]].max_tokens
                        # USIZE_MAX
                  /\ p.row_infos[its[k].start + 2].token_idx_start > p.token_idx
    THEN "filter_max_tokens: attempt to subtract with overflow"
    ELSE ""

\* the sweep over the rows idx .. num_rows() - 1, the items kept so far
\* filling scratch.items up to dst
RECURSIVE filter_rows(_, _, _, _)
filter_rows(p, idx, dst, wraps) ==
    IF idx >= num_rows(p) \/ p.panic # "" THEN p
    ELSE IF idx >= Len(p.rows)
    THEN Panic(p, "filter_max_tokens: rows index out of bounds")
    ELSE Bind(row_items(p, p.rows[idx + 1]), LAMBDA its :
         IF filter_row_panic(p, its, wraps) # ""
         THEN Panic(p, filter_row_panic(p, its, wraps))
         ELSE Bind(Filter(its, LAMBDA item : ~over_budget(p, item)), LAMBDA kept :
              filter_rows(
                  [p EXCEPT
                      !.items = [i \in 1..Len(@) |->
                                    IF i > dst /\ i <= dst + Len(kept)
                                    THEN kept[i - dst] ELSE @[i]],
                      !.rows[idx + 1].first_item = dst,
                      !.rows[idx + 1].last_item = dst + Len(kept)],
                  idx + 1, dst + Len(kept), wraps)))

filter_max_tokens(p, wraps) ==
    Bind(assert_definitive(p), LAMBDA p1 :
    IF p1.panic # "" THEN p1
    ELSE
    Bind(filter_rows(
             [p1 EXCEPT !.row_infos =
                 Append(@, RowInfo(bogus, 0, p.token_idx, p.token_idx, <<>>))],
             0, 0, wraps), LAMBDA p2 :
    IF p2.panic # "" THEN p2
    ELSE [p2 EXCEPT !.row_infos = SubSeq(@, 1, Len(@) - 1), !.ret = TRUE]))

(***************************************************************************)
(* compute_bias.  The token trie walker (TokTrie::add_bias) is outside the *)
(* parser file; modelled from its contract: inside trie_started ..         *)
(* trie_finished it offers the bytes of every token below `start` with     *)
(* try_push_byte, allows the tokens whose bytes are all accepted, and pops *)
(* the bytes it pushed.                                                    *)
(***************************************************************************)
\* trie.eos_token()
EosToken == 0

\* a flush_gen_grammar that takes the scan's result for the flag
flush_gen_grammar_any_row(p) ==
    IF p.trie_gen_grammar = None THEN p
    ELSE Bind(scan_gen_grammar_inner([p EXCEPT !.trie_gen_grammar = None],
                                     p.trie_gen_grammar, <<>>), LAMBDA q :
         IF q.panic # "" THEN q
         ELSE [q EXCEPT !.trie_gen_grammar_accepting = q.ret])

flush_gen_grammar(p) ==
    IF p.trie_gen_grammar = None THEN p
    ELSE Bind(scan_gen_grammar_inner([p EXCEPT !.trie_gen_grammar = None],
                                     p.trie_gen_grammar, <<>>), LAMBDA q :
         IF q.panic # "" THEN q
         ELSE [q EXCEPT !.trie_gen_grammar_accepting =
                            q.ret /\ row_is_accepting(q)])

\* a trie_started that leaves the symbol waiting
trie_started_without_flush(p) == trie_started_inner(p)

\* Recognizer::trie_started
trie_started(p) ==
    Bind(trie_started_inner(p), LAMBDA p1 :
    IF p1.panic # "" THEN p1 ELSE flush_gen_grammar(p1))

\* Recognizer::trie_finished
trie_finished(p) == trie_finished_inner(p)

\* the bytes of the children of the trie node at prefix
children(prefix) ==
    {token(t)[Len(prefix) + 1] :
        t \in {u \in 1..Len(Vocab) :
                  IsPrefix(prefix, token(u)) /\ Len(token(u)) > Len(prefix)}}

\* the depth-first walk over the children todo of the node at prefix, in
\* the order of their bytes: a rejected byte skips its subtree, an accepted
\* one allows the node's token and is popped after its subtree
RECURSIVE add_bias_inner(_, _, _)
add_bias_inner(r, prefix, todo) ==
    IF todo = {} \/ r.p.panic # "" THEN r
    ELSE
    Bind(MinOf(todo), LAMBDA b :
    Bind(try_push_byte(r.p, b), LAMBDA q :
    IF q.panic # "" THEN [r EXCEPT !.p = q]
    ELSE IF ~q.ret THEN add_bias_inner([r EXCEPT !.p = q], prefix, todo \ {b})
    ELSE
    Bind(add_bias_inner(
             [p |-> q,
              set |-> r.set \cup {t \in 1..Len(Vocab) :
                                     token(t) = Append(prefix, b)}],
             Append(prefix, b), children(Append(prefix, b))), LAMBDA sub :
    IF sub.p.panic # "" THEN sub
    ELSE add_bias_inner([sub EXCEPT !.p = pop_bytes(sub.p, 1)],
                        prefix, todo \ {b}))))

\* TokTrie::add_bias: the tokens that are prefixes of start are allowed too;
\* without a trie node at start the recognizer is not called
add_bias(p, start) ==
    Bind({t \in 1..Len(Vocab) : start # <<>> /\ IsPrefix(token(t), start)},
         LAMBDA fixed :
    IF start # <<>> /\ ~\E t \in 1..Len(Vocab) : IsPrefix(start, token(t))
    THEN [p |-> p, set |-> fixed]
    ELSE
    Bind(trie_started(p), LAMBDA p1 :
    IF p1.panic # "" THEN [p |-> p1, set |-> {}]
    ELSE
    Bind(add_bias_inner([p |-> p1, set |-> fixed], start, children(start)),
         LAMBDA r :
    IF r.p.panic # "" THEN r
    ELSE [r EXCEPT !.p = trie_finished(r.p)])))

\* the result is the token set, EosToken standing for the EOS token
compute_bias(p, start) ==
    Bind(add_bias(p, start), LAMBDA r :
    IF r.p.panic # "" THEN r.p
    ELSE
    Bind(IF r.set = {} THEN flush_lexer(r.p) ELSE r.p, LAMBDA p2 :
    IF p2.panic # "" THEN p2
    ELSE Return(p2, IF start = <<>> /\ lexer_allows_eos(p2)
                    THEN r.set \cup {EosToken} ELSE r.set)))

\* the result is <<trie_gen_grammar_accepting, token set>>
compute_bias_after_gen_grammar(p, symidx) ==
    Bind(compute_bias([p EXCEPT !.trie_gen_grammar = symidx], <<>>), LAMBDA r :
    IF r.panic # "" THEN r
    ELSE IF r.trie_gen_grammar # None
    THEN Panic(r, "compute_bias_after_gen_grammar: trie_gen_grammar")
    ELSE Return(r, <<r.trie_gen_grammar_accepting, r.ret>>))

(***************************************************************************)
(* The byte-level parser of guidance_ctrl                                  *)
(* (src/controllers/guidance_ctrl/src/earley/parser.rs).  It has no lexer: *)
(* a terminal is a set of bytes, a row is pushed per byte, and the rows    *)
(* themselves are the stack that pop_bytes and trie_finished cut back.     *)
(* The parser is a record p; its operators carry the prefix byte_ where    *)
(* the name is also one of the lexeme-level parser.                        *)
(***************************************************************************)
ByteTerm(bytes) ==
    [is_terminal |-> TRUE, bytes |-> bytes, is_nullable |-> FALSE,
     capture_name |-> "", commit_point |-> FALSE, hidden |-> FALSE]

ByteNonTerm ==
    [is_terminal |-> FALSE, bytes |-> {}, is_nullable |-> FALSE,
     capture_name |-> "", commit_point |-> FALSE, hidden |-> FALSE]

MkByteGrammar(start, syms, prods, alphabet) ==
    [start |-> start, syms |-> syms,
     rhs |-> FlatRhs(prods), lhs |-> FlatLhs(prods),
     rules |-> [s \in 1..Len(syms) |-> RulesOf(prods, s)],
     alphabet |-> alphabet]

\* S -> "a" "b" | "a" "c"
ByteGrammarAbAc ==
    MkByteGrammar(1, <<ByteNonTerm, ByteTerm({97}), ByteTerm({98}),
                       ByteTerm({99})>>,
        << <<1, <<2, 3>>>>, <<1, <<2, 4>>>> >>, {97, 98, 99})

\* S -> N "!" ; N -> "a" N | "a", N captured as "name"
ByteGrammarCapture ==
    MkByteGrammar(1, <<ByteNonTerm,
                       [ByteNonTerm EXCEPT !.capture_name = "name"],
                       ByteTerm({97}), ByteTerm({33})>>,
        << <<1, <<2, 4>>>>, <<2, <<3, 2>>>>, <<2, <<3>>>> >>, {97, 33})

\* S -> C "b" | "a" "c" ; C -> "a", C a hidden commit point
ByteGrammarCommit ==
    MkByteGrammar(1, <<ByteNonTerm,
                       [ByteNonTerm EXCEPT !.commit_point = TRUE,
                                           !.hidden = TRUE],
                       ByteTerm({97}), ByteTerm({98}), ByteTerm({99})>>,
        << <<1, <<2, 4>>>>, <<1, <<3, 5>>>>, <<2, <<3>>>> >>, {97, 98, 99})

\* S -> A T ; A -> "a" | (empty) ; T -> "b" T | "c", A nullable
ByteGrammarNullable ==
    MkByteGrammar(1, <<ByteNonTerm, [ByteNonTerm EXCEPT !.is_nullable = TRUE],
                       ByteNonTerm, ByteTerm({97}), ByteTerm({98}),
                       ByteTerm({99})>>,
        << <<1, <<2, 3>>>>, <<2, <<4>>>>, <<2, <<>>>>, <<3, <<5, 3>>>>,
           <<3, <<6>>>> >>, {97, 98, 99})

\* S -> K "b" ; K -> "a" | "a" "a", K a commit point (not hidden)
ByteGrammarCommitShown ==
    MkByteGrammar(1, <<ByteNonTerm,
                       [ByteNonTerm EXCEPT !.commit_point = TRUE],
                       ByteTerm({97}), ByteTerm({98})>>,
        << <<1, <<2, 4>>>>, <<2, <<3>>>>, <<2, <<3, 3>>>> >>, {97, 98})

ByteGrammars ==
    <<ByteGrammarAbAc, ByteGrammarCapture, ByteGrammarCommit,
      ByteGrammarNullable, ByteGrammarCommitShown>>

\* CGrammar::terminals_by_byte: the terminals that match byte b
terminals_by_byte(G, b) ==
    {s \in 1..Len(G.syms) : G.syms[s].is_terminal /\ b \in G.syms[s].bytes}

\* Item::NULL
ItemNull == Item(0, 0)

\* writing slot idx (0-based) of a vector that holds at least idx elements
Put(s, idx, v) == IF idx >= Len(s) THEN Append(s, v) ELSE [s EXCEPT ![idx + 1] = v]

byte_num_rows(p) == Len(p.rows)

byte_curr_row(p) == p.rows[Len(p.rows)]

\* Scratch::merge_item_origin: item_props[target].merge(item_props[origin])
byte_merge_item_origin(p, target, origin) ==
    IF origin >= Len(p.item_props) \/ target >= Len(p.item_props)
    THEN Panic(p, "merge_item_origin: index out of bounds")
    ELSE [p EXCEPT !.item_props[target + 1] = Min(@, p.item_props[origin + 1])]

\* Scratch::just_add: the item is written at row_end; its props only in
\* definitive mode
byte_just_add(p, item, origin) ==
    Bind([p EXCEPT !.items = Put(@, p.row_end, item)], LAMBDA p1 :
    Bind(IF p.definitive
         THEN byte_merge_item_origin(
                  [p1 EXCEPT !.item_props = Put(@, p.row_end, USIZE_MAX)],
                  p.row_end, origin)
         ELSE p1, LAMBDA p2 :
    IF p2.panic # "" THEN p2 ELSE [p2 EXCEPT !.row_end = @ + 1]))

\* Scratch::find_item: the slot of the item in the row under construction
byte_find_item(p, item) ==
    Bind({i \in p.row_start .. (p.row_end - 1) : p.items[i + 1] = item},
         LAMBDA hits : IF hits = {} THEN None ELSE MinOf(hits))

byte_add_unique(p, item, origin) ==
    Bind(byte_find_item(p, item), LAMBDA idx :
    IF idx # None
    THEN IF p.definitive THEN byte_merge_item_origin(p, idx, origin) ELSE p
    ELSE byte_just_add(p, item, origin))

\* add_unique of the pairs <<item, origin>> of a sequence, in order
RECURSIVE byte_add_unique_all(_, _)
byte_add_unique_all(p, pairs) ==
    IF pairs = <<>> \/ p.panic # "" THEN p
    ELSE byte_add_unique_all(byte_add_unique(p, Head(pairs)[1], Head(pairs)[2]),
                             Tail(pairs))

\* Scratch::hidden_start of the row under construction
byte_hidden_start(p) ==
    IF p.row_end = p.row_start THEN USIZE_MAX
    ELSE MinOf({p.item_props[i + 1] : i \in p.row_start .. (p.row_end - 1)})

\* Parser::pop_rows
pop_rows(p, n) == [p EXCEPT !.rows = SubSeq(@, 1, Len(@) - n)]

byte_assert_definitive(p) ==
    IF ~p.definitive THEN Panic(p, "assert_definitive: not definitive")
    ELSE IF byte_num_rows(p) # Len(p.row_infos)
    THEN Panic(p, "assert_definitive: num_rows != row_infos")
    ELSE p

\* Parser::pop_row_infos
pop_row_infos(p, n) ==
    Bind(byte_assert_definitive(p), LAMBDA p1 :
    IF p1.panic # "" THEN p1
    ELSE pop_rows([p1 EXCEPT !.row_infos = SubSeq(@, 1, Len(@) - n)], n))

\* the capture of a completed item in definitive mode: the bytes of the rows
\* start_pos + 1 .. curr_idx - 1 and the new byte, cut at the hidden start
byte_capture(p, name, item, curr_idx, byte) ==
    IF item.start + 1 < curr_idx /\ curr_idx > Len(p.row_infos)
    THEN Panic(p, "push_row: row_infos slice out of range")
    ELSE
    Bind((IF item.start + 1 < curr_idx
          THEN [k \in 1..(curr_idx - item.start - 1) |->
                   p.row_infos[item.start + 1 + k].byte]
          ELSE <<>>) \o <<byte>>, LAMBDA bytes :
    Bind(byte_hidden_start(p), LAMBDA hidden_start :
    IF hidden_start < curr_idx + 1
    THEN IF hidden_start < item.start \/ hidden_start - item.start > Len(bytes)
         THEN Panic(p, "push_row: drain out of range")
         ELSE [p EXCEPT !.captures =
                  Append(@, <<name, SubSeq(bytes, 1, hidden_start - item.start)>>)]
    ELSE [p EXCEPT !.captures = Append(@, <<name, bytes>>)]))

\* the commit point: of the items not yet processed, an earlier complete
\* commit point replaces the item, each in turn
RECURSIVE commit_choice(_, _, _, _)
commit_choice(p, r, ptr, hi) ==
    IF ptr >= hi THEN r
    ELSE Bind(p.items[ptr + 1], LAMBDA next_item :
         commit_choice(p,
             IF /\ next_item.start < r.item.start
                /\ p.grammar.rhs[next_item.rule] = NULL
                /\ p.grammar.syms[p.grammar.lhs[next_item.rule]].commit_point
             THEN [item |-> next_item, item_idx |-> ptr] ELSE r,
             ptr + 1, hi))

\* push_row and hide_item call each other
RECURSIVE byte_push_row_loop(_, _, _, _)
RECURSIVE byte_push_row(_, _, _)

\* Parser::hide_item
hide_item(p, sym, row_idx) ==
    IF row_idx >= Len(p.rows) \/ row_idx >= Len(p.row_infos)
    THEN Panic(p, "hide_item: index out of bounds")
    ELSE
    Bind(p.rows[row_idx + 1], LAMBDA row :
    Bind(p.row_infos[row_idx + 1].byte, LAMBDA last_byte :
    Bind(pop_row_infos(p, byte_num_rows(p) - row_idx), LAMBDA p1 :
    IF p1.panic # "" THEN p1
    ELSE
    Bind(Filter([k \in 1..(row.last_item - row.first_item) |->
                    row.first_item + k - 1],
                LAMBDA idx : p1.grammar.rhs[p1.items[idx + 1].rule] = sym),
         LAMBDA idxs :
    Bind(byte_add_unique_all(
             [p1 EXCEPT !.row_start = row.first_item,
                        !.row_end = row.first_item],
             [k \in 1..Len(idxs) |->
                 <<advance_dot(p1.items[idxs[k] + 1]), idxs[k]>>]),
         LAMBDA p2 :
    IF p2.panic # "" THEN p2
    ELSE byte_push_row(p2, row.first_item, last_byte))))))

\* the agenda loop of push_row; r holds the parser, the commit item and, once
\* hide_item has returned, its result
byte_push_row_loop(r, curr_idx, agenda_ptr, byte) ==
    IF agenda_ptr >= r.p.row_end \/ r.p.panic # "" \/ r.returned THEN r
    ELSE
    Bind(r.p, LAMBDA p :
    Bind(p.items[agenda_ptr + 1], LAMBDA item :
    Bind(p.grammar.rhs[item.rule], LAMBDA after_dot :
    IF after_dot = NULL
    THEN
      Bind(p.grammar.lhs[item.rule], LAMBDA lhs :
      Bind(p.grammar.syms[lhs], LAMBDA flags :
      Bind(IF p.definitive /\ flags.capture_name # ""
           THEN byte_capture(p, flags.capture_name, item, curr_idx, byte)
           ELSE p, LAMBDA p1 :
      Bind(IF p1.panic # "" THEN p1
           ELSE IF item.start < curr_idx
           THEN Bind(p1.rows[item.start + 1], LAMBDA row :
                Bind(Filter([k \in 1..(row.last_item - row.first_item) |->
                                row.first_item + k - 1],
                            LAMBDA i : p1.grammar.rhs[p1.items[i + 1].rule] = lhs),
                     LAMBDA idxs :
                byte_add_unique_all(p1,
                    [k \in 1..Len(idxs) |->
                        <<advance_dot(p1.items[idxs[k] + 1]), idxs[k]>>])))
           ELSE p1, LAMBDA p2 :
      IF p2.panic # "" THEN [r EXCEPT !.p = p2]
      ELSE IF ~flags.commit_point
      THEN byte_push_row_loop([r EXCEPT !.p = p2], curr_idx, agenda_ptr + 1,
                              byte)
      ELSE
      Bind(commit_choice(p2, [item |-> item, item_idx |-> agenda_ptr],
                         agenda_ptr + 1, p2.row_end), LAMBDA c :
      Bind([p2 EXCEPT
               !.row_end = agenda_ptr + 1,
               !.items[agenda_ptr + 1] = c.item,
               !.item_props = IF p2.definitive
                              THEN [@ EXCEPT ![agenda_ptr + 1] =
                                             p2.item_props[c.item_idx + 1]]
                              ELSE @], LAMBDA p3 :
      IF p3.definitive /\ flags.hidden
      THEN [p |-> hide_item(p3, lhs, c.item.start), commit_item |-> c.item,
            returned |-> TRUE]
      ELSE byte_push_row_loop([r EXCEPT !.p = p3, !.commit_item = c.item],
                              curr_idx, agenda_ptr + 1, byte)))))))
    ELSE
      Bind(p.grammar.syms[after_dot], LAMBDA sym_data :
      Bind(IF sym_data.is_nullable
           THEN byte_add_unique(p, advance_dot(item), agenda_ptr) ELSE p,
           LAMBDA p1 :
      Bind(byte_add_unique_all(p1,
               [k \in 1..Len(p.grammar.rules[after_dot]) |->
                   <<Item(p.grammar.rules[after_dot][k], curr_idx),
                     agenda_ptr>>]), LAMBDA p2 :
      Bind(IF p2.panic = "" /\ p2.definitive /\ sym_data.hidden
           THEN [p2 EXCEPT !.item_props =
                    [i \in 1..Len(@) |->
                        IF /\ i - 1 \in p2.row_start .. (p2.row_end - 1)
                           /\ \E k \in 1..Len(p.grammar.rules[after_dot]) :
                                 /\ p2.items[i] =
                                        Item(p.grammar.rules[after_dot][k],
                                             curr_idx)
                                 /\ byte_find_item(p2, p2.items[i]) = i - 1
                        THEN Min(@[i], curr_idx) ELSE @[i]]]
           ELSE p2, LAMBDA p3 :
      byte_push_row_loop([r EXCEPT !.p = p3], curr_idx, agenda_ptr + 1,
                         byte))))))))

\* Parser::push_row of guidance_ctrl
byte_push_row(p, agenda_ptr, byte) ==
    Bind(byte_push_row_loop([p |-> p, commit_item |-> ItemNull,
                             returned |-> FALSE],
                            Len(p.rows), agenda_ptr, byte), LAMBDA r :
    IF r.p.panic # "" \/ r.returned THEN r.p
    ELSE IF r.p.row_end - r.p.row_start = 0 THEN Return(r.p, FALSE)
    ELSE Bind([r.p EXCEPT !.rows =
                  Append(@, [first_item |-> r.p.row_start,
                             last_item |-> r.p.row_end])], LAMBDA p1 :
         IF p1.definitive /\ Len(p1.row_infos) < Len(p1.rows) - 1
         THEN Panic(p1, "push_row: drain out of range")
         ELSE Return(IF p1.definitive
                     THEN [p1 EXCEPT !.row_infos =
                              Append(SubSeq(@, 1, Len(p1.rows) - 1),
                                     [byte |-> byte, token_idx |-> p1.token_idx,
                                      commit_item |-> r.commit_item])]
                     ELSE p1, TRUE)))

\* Parser::new of guidance_ctrl
byte_new(gi) ==
    Bind(ByteGrammars[gi], LAMBDA G :
    Bind(byte_add_unique_all(
             [g |-> gi, grammar |-> G, items |-> <<>>, item_props |-> <<>>,
              row_start |-> 0, row_end |-> 0, definitive |-> TRUE,
              rows |-> <<>>, row_infos |-> <<>>, captures |-> <<>>,
              token_idx |-> 0, panic |-> "", ret |-> FALSE],
             [k \in 1..Len(G.rules[G.start]) |->
                 <<Item(G.rules[G.start][k], 0), 0>>]), LAMBDA p :
    IF p.panic # "" THEN p ELSE byte_push_row(p, p.row_start, 0)))

\* Parser::scan of guidance_ctrl
byte_scan(p, b) ==
    IF Len(p.rows) = 0 THEN Panic(p, "scan: no row")
    ELSE
    Bind(byte_curr_row(p), LAMBDA row :
    Bind(terminals_by_byte(p.grammar, b), LAMBDA allowed :
    Bind(Filter([k \in 1..(row.last_item - row.first_item) |->
                    row.first_item + k - 1],
                LAMBDA i : p.grammar.rhs[p.items[i + 1].rule] \in allowed),
         LAMBDA idxs :
    Bind([p EXCEPT !.row_start = row.last_item, !.row_end = row.last_item],
         LAMBDA p0 :
    Bind([p0 EXCEPT
             !.items = [i \in 1..Max(Len(@), p0.row_end + Len(idxs)) |->
                           IF i > p0.row_end /\ i <= p0.row_end + Len(idxs)
                           THEN advance_dot(p.items[idxs[i - p0.row_end] + 1])
                           ELSE @[i]],
             !.item_props =
                 IF p0.definitive
                 THEN [i \in 1..Max(Len(@), p0.row_end + Len(idxs)) |->
                          IF i > p0.row_end /\ i <= p0.row_end + Len(idxs)
                          THEN @[idxs[i - p0.row_end] + 1]
                          ELSE @[i]]
                 ELSE @,
             !.row_end = @ + Len(idxs)], LAMBDA p1 :
    byte_push_row(p1, p1.row_start, b))))))

\* Recognizer::trie_started of guidance_ctrl
byte_trie_started(p) ==
    IF ~p.definitive THEN Panic(p, "trie_started: not definitive")
    ELSE IF Len(p.row_infos) # byte_num_rows(p)
    THEN Panic(p, "trie_started: row_infos != num_rows")
    ELSE [p EXCEPT !.definitive = FALSE]

\* a trie_finished that leaves the speculative rows
byte_trie_finished_keeps_rows(p) ==
    IF p.definitive THEN Panic(p, "trie_finished: definitive")
    ELSE [p EXCEPT !.definitive = TRUE]

\* Recognizer::trie_finished of guidance_ctrl
byte_trie_finished(p) ==
    IF p.definitive THEN Panic(p, "trie_finished: definitive")
    ELSE IF Len(p.row_infos) > byte_num_rows(p)
    THEN Panic(p, "trie_finished: row_infos > num_rows")
    ELSE [pop_rows(p, byte_num_rows(p) - Len(p.row_infos))
             EXCEPT !.definitive = TRUE]

\* Recognizer::try_push_byte of guidance_ctrl
byte_try_push_byte(p, byte) == byte_scan(p, byte)

\* Recognizer::pop_bytes of guidance_ctrl
byte_pop_bytes(p, num) == pop_rows(p, num)

(***************************************************************************)
(* The state of the byte-level parser and of its driver.                   *)
(***************************************************************************)
VARIABLES
    bp,         \* the Parser of guidance_ctrl
    bp_last,    \* the last call on it: [op, arg]
    bp_saved,   \* the parser at the last trie_started
    bp_pushed   \* inside a region: the bytes accepted and not yet popped

byte_vars == <<bp, bp_last, bp_saved, bp_pushed>>

\* the byte-level parser is not used
ByteIdle ==
    /\ bp = byte_new(1)
    /\ bp_last = [op |-> "new", arg |-> 1]
    /\ bp_saved = byte_new(1)
    /\ bp_pushed = 0

(***************************************************************************)
(* derivre: map_ast (mapper.rs).  An AST node T is [label, args]; get_args *)
(* gives its children.  A reference &T into the tree is the path from the  *)
(* root, the positions of the children taken, counted from 1.  map_node is *)
(* the caller's closure: "term" rebuilds the node from its label and the   *)
(* child results, "count" counts the nodes.                                *)
(***************************************************************************)
Node(label, args) == [label |-> label, args |-> args]

get_args(t) == t.args

RECURSIVE at(_, _)
at(t, path) ==
    IF path = <<>> THEN t ELSE at(get_args(t)[Head(path)], Tail(path))

RECURSIVE SumSeq(_)
SumSeq(s) == IF s = <<>> THEN 0 ELSE Head(s) + SumSeq(Tail(s))

map_node(kind, t, args) ==
    IF kind = "term" THEN Node(t.label, args) ELSE 1 + SumSeq(args)

\* the recursive definition of the fold
RECURSIVE fold(_, _)
fold(kind, t) ==
    map_node(kind, t,
             [i \in 1..Len(get_args(t)) |-> fold(kind, get_args(t)[i])])

\* the fold that hands the child results over last child first
RECURSIVE fold_rev(_, _)
fold_rev(kind, t) ==
    LET n == Len(get_args(t))
    IN  map_node(kind, t,
                 [i \in 1..n |-> fold_rev(kind, get_args(t)[n + 1 - i])])

\* the nodes of a tree, as paths
RECURSIVE Paths(_)
Paths(t) ==
    {<<>>} \cup UNION {{<<i>> \o p : p \in Paths(get_args(t)[i])} :
                         i \in 1..Len(get_args(t))}

\* the trees: leaves, nodes of up to MaxArgs leaves, and nodes of up to
\* MaxArgsDeep of those
Labels == {0, 1}

SeqsUpTo(S, n) == UNION {[1..k -> S] : k \in 1..n}

Leaves == {Node(l, <<>>) : l \in Labels}

FlatAsts ==
    Leaves \cup {Node(l, a) : l \in Labels, a \in SeqsUpTo(Leaves, MaxArgs)}

Asts ==
    FlatAsts
      \cup {Node(l, a) : l \in Labels, a \in SeqsUpTo(FlatAsts, MaxArgsDeep)}

StackNode(ast, trg, args) == [ast |-> ast, trg |-> trg, args |-> args]

\* map_ast up to the loop head: the stack holds the root
map_ast_start(root, kind) ==
    [root |-> root, kind |-> kind,
     stack |-> <<StackNode(<<>>, 0, <<>>)>>,
     calls |-> <<>>, r |-> None, pc |-> "loop", turns |-> 0]

\* the first branch of the loop body: the entry goes back on the stack, its
\* children above it in the order of get_args
map_ast_expand(m, st, entry, args) ==
    LET trg == Len(st)
    IN  [m EXCEPT !.stack =
            st \o <<entry>>
               \o [i \in 1..Len(args) |->
                     StackNode(Append(entry.ast, i), trg, <<>>)]]

\* the else branch: map_node is called and its result pushed on the args of
\* stack[entry.trg], or returned when the stack is empty.  calls records the
\* calls of map_node: the node, the args and the result.
map_ast_apply(m, st, entry, args) ==
    IF Len(entry.args) # Len(args)
    THEN [m EXCEPT !.stack = st, !.pc = "assertion failed"]
    ELSE LET r == map_node(m.kind, at(m.root, entry.ast), entry.args)
             m1 == [m EXCEPT !.stack = st,
                      !.calls = Append(@, [ast |-> entry.ast,
                                           args |-> entry.args, r |-> r])]
         IN  IF Len(st) = 0 THEN [m1 EXCEPT !.pc = "returned", !.r = r]
             ELSE IF entry.trg >= Len(st)
             THEN [m1 EXCEPT !.pc = "index out of bounds"]
             ELSE [m1 EXCEPT !.stack[entry.trg + 1].args = Append(@, r)]

\* whether the entry on top of the stack takes the first branch
expands(m) ==
    /\ m.stack # <<>>
    /\ Len(get_args(at(m.root, m.stack[Len(m.stack)].ast))) > 0
    /\ Len(m.stack[Len(m.stack)].args) = 0

\* one turn of the while-let loop
map_ast_turn(m) ==
    IF m.stack = <<>> THEN [m EXCEPT !.pc = "unreachable"]
    ELSE LET entry == m.stack[Len(m.stack)]
             st == SubSeq(m.stack, 1, Len(m.stack) - 1)
             args == get_args(at(m.root, entry.ast))
             m1 == [m EXCEPT !.turns = @ + 1]
         IN  IF expands(m) THEN map_ast_expand(m1, st, entry, args)
             ELSE map_ast_apply(m1, st, entry, args)

RECURSIVE map_ast_loop(_)
map_ast_loop(m) == IF m.pc # "loop" THEN m ELSE map_ast_loop(map_ast_turn(m))

map_ast(root, kind) == map_ast_loop(map_ast_start(root, kind))

VARIABLES
    mp          \* a call of map_ast: the tree, the closure, the stack, the
                \* calls of map_node so far, the result, and where it is

\* map_ast is not called
MapIdle == mp = map_ast_start(Node(0, <<>>), "term")

(***************************************************************************)
(* rllm: CmdChannel (iface.rs).  The two MessageChannels are queues; their *)
(* send and recv return a Result, and either outcome is possible.  A       *)
(* response is what the other process wrote: its "type", and whether it    *)
(* has a 'data' that deserializes.                                         *)
(***************************************************************************)
Resp(type, data) == [type |-> type, data |-> data]

NotJson == Resp("not json", "none")

Responses ==
    {Resp("ok", "good"), Resp("ok", "bad"), Resp("ok", "none"),
     Resp("error", "none"), NotJson}

Ops == {"ping", "tokens"}

\* CmdChannel::new; pc is where the caller of exec is: "idle" before a call
\* and after exec has returned, "expect" in the recv of expect, "panic"
\* after a failed assertion
cmd_new ==
    [cmd_pending |-> FALSE, cmd_ch |-> <<>>, resp_ch |-> <<>>,
     pc |-> "idle", ret |-> "", execs |-> 0, failed |-> FALSE]

\* CmdChannel::send_bytes; sent: cmd_ch.send returned Ok
send_bytes(ch, data, sent) ==
    IF ch.cmd_pending
    THEN [ch EXCEPT !.pc = "panic",
                    !.ret = "assertion failed: !self.cmd_pending"]
    ELSE LET c1 == [ch EXCEPT !.cmd_pending = TRUE]
         IN  IF sent
             THEN [c1 EXCEPT !.cmd_ch = Append(@, data), !.ret = "Ok"]
             ELSE [c1 EXCEPT !.ret = "Err: send", !.failed = TRUE]

\* CmdChannel::send; serializable: to_value and to_vec returned Ok
send(ch, op, serializable, sent) ==
    IF ~serializable THEN [ch EXCEPT !.ret = "Err: serialize"]
    ELSE send_bytes(ch, op, sent)

\* CmdChannel::expect; received: resp_ch.recv returned Ok with the next
\* message
expect(ch, received) ==
    IF ~ch.cmd_pending
    THEN [ch EXCEPT !.pc = "panic",
                    !.ret = "assertion failed: self.cmd_pending"]
    ELSE IF ~received
    THEN [ch EXCEPT !.pc = "idle", !.ret = "Err: recv", !.failed = TRUE]
    ELSE LET resp == Head(ch.resp_ch)
             c1 == [ch EXCEPT !.cmd_pending = FALSE, !.resp_ch = Tail(@),
                              !.pc = "idle"]
         IN  IF resp = NotJson THEN [c1 EXCEPT !.ret = "Err: json"]
             ELSE IF resp.type # "ok"
             THEN [c1 EXCEPT !.ret = "Err: Bad response"]
             ELSE IF resp.data = "none"
             THEN [c1 EXCEPT !.ret = "Err: Bad response - no 'data'"]
             ELSE IF resp.data = "bad"
             THEN [c1 EXCEPT !.ret = "Err: deserialize"]
             ELSE [c1 EXCEPT !.ret = "Ok"]

\* CmdChannel::exec up to the recv of expect: send, and on Ok the head of
\* expect
exec_send(ch, op, serializable, sent) ==
    LET c1 == send([ch EXCEPT !.execs = @ + 1], op, serializable, sent)
    IN  IF c1.pc = "panic" \/ c1.ret # "Ok" THEN c1
        ELSE [c1 EXCEPT !.pc = "expect"]

VARIABLES
    cc          \* a CmdChannel and the caller of exec on it

\* the CmdChannel is not used
CmdIdle == cc = cmd_new

(***************************************************************************)
(* rllm: AsyncCmdChannel (iface.rs).  pending_reqs maps a $rid to the      *)
(* oneshot sender of the call that made it, here the call's number; the    *)
(* $rid of a call is a fresh uuid, here a number no call has used.  A call *)
(* is at "start", "inserted" (its sender is in pending_reqs), "awaiting"   *)
(* (its request is written, it waits on rx), "returned", "dropped" (its    *)
(* future was dropped at the await) or "panic"; rx holds the value sent to *)
(* it.  The reader thread is "running" or names the unwrap that ended it.  *)
(***************************************************************************)
Calls == 1..MaxCalls

Rids == 1..MaxCalls

AResp(rid, type, data) == [rid |-> rid, type |-> type, data |-> data]

\* AsyncCmdChannel::new, the reader thread spawned
async_new ==
    [pending_reqs |-> {}, poisoned |-> FALSE, cmd_ch |-> <<>>,
     resp_ch |-> <<>>, reader |-> "running",
     call |-> [c \in Calls |->
                 [pc |-> "start", rid |-> None, rx |-> <<>>, ret |-> ""]],
     delivered |-> <<>>]

\* a HashMap insert
insert(map, rid, tx) ==
    {e \in map : e.rid # rid} \cup {[rid |-> rid, tx |-> tx]}

\* an exec that writes its request without having put its sender in
\* pending_reqs
exec_insert_forgets(a, c, rid, serializable) ==
    [a EXCEPT !.call[c].pc = "inserted", !.call[c].rid = rid]

\* AsyncCmdChannel::exec up to the insert into pending_reqs
exec_insert(a, c, rid, serializable) ==
    IF ~serializable
    THEN [a EXCEPT !.call[c].pc = "returned",
                   !.call[c].ret = "Err: serialize"]
    ELSE IF a.poisoned
    THEN [a EXCEPT !.call[c].pc = "panic",
                   !.call[c].ret = "PoisonError"]
    ELSE [a EXCEPT !.pending_reqs = insert(@, rid, c),
                   !.call[c].pc = "inserted", !.call[c].rid = rid]

\* exec: the request is written to the command channel; sent: send
\* returned Ok
exec_write(a, c, sent) ==
    IF sent
    THEN [a EXCEPT !.cmd_ch = Append(@, a.call[c].rid),
                   !.call[c].pc = "awaiting"]
    ELSE [a EXCEPT !.call[c].pc = "returned", !.call[c].ret = "Err: send"]

\* exec from the value received on rx
exec_await(a, c) ==
    LET resp == a.call[c].rx[1]
    IN  [a EXCEPT !.call[c].pc = "returned",
                  !.call[c].ret =
                      IF resp.type # "ok" THEN "Err: Bad response"
                      ELSE IF resp.data = "none"
                      THEN "Err: Bad response - no 'data'"
                      ELSE IF resp.data = "bad" THEN "Err: deserialize"
                      ELSE "Ok"]

\* whether the receiver of the call's oneshot channel exists
rx_alive(a, c) == a.call[c].pc \in {"inserted", "awaiting"}

\* one turn of the reader thread's loop on the next response
reader_turn(a) ==
    LET resp == Head(a.resp_ch)
        a1 == [a EXCEPT !.resp_ch = Tail(@)]
    IN  IF resp.type = "not json"
        THEN [a1 EXCEPT !.reader = "panic: from_slice"]
        ELSE IF resp.rid = None
        THEN [a1 EXCEPT !.reader = "panic: $rid"]
        ELSE IF a.poisoned
        THEN [a1 EXCEPT !.reader = "panic: lock"]
        ELSE IF ~\E e \in a.pending_reqs : e.rid = resp.rid
        THEN [a1 EXCEPT !.reader = "panic: remove", !.poisoned = TRUE]
        ELSE LET e == CHOOSE e \in a.pending_reqs : e.rid = resp.rid
                 a2 == [a1 EXCEPT !.pending_reqs = @ \ {e}]
             IN  IF ~rx_alive(a, e.tx)
                 THEN [a2 EXCEPT !.reader = "panic: tx.send"]
                 ELSE [a2 EXCEPT
                         !.call[e.tx].rx = <<resp>>,
                         !.delivered =
                             Append(@, [rid |-> resp.rid, to |-> e.tx])]

VARIABLES
    ac          \* an AsyncCmdChannel, its reader thread and the calls of
                \* exec on it

\* the AsyncCmdChannel is not used
AsyncIdle == ac = async_new

\* the other components' variables
others == <<byte_vars, mp, cc, ac>>

\* what the actions on the byte-level parser leave alone
beside_byte == <<mp, cc, ac>>

\* what the turns of map_ast leave alone
beside_map == <<byte_vars, cc, ac>>

\* what the calls on the CmdChannel leave alone
beside_cmd == <<byte_vars, mp, ac>>

\* what the AsyncCmdChannel leaves alone
beside_async == <<byte_vars, mp, cc>>

\* the other components are not used
Idle == ByteIdle /\ MapIdle /\ CmdIdle /\ AsyncIdle

(***************************************************************************)
(* Parser::new.                                                            *)
(***************************************************************************)
new(gi) ==
    Bind([g |-> gi, grammar |-> Grammars[gi],
          items |-> <<>>, row_start |-> 0, row_end |-> 0,
          definitive |-> TRUE, rows |-> <<>>, row_infos |-> <<>>,
          lexer_stack |-> <<LexerStateFrame(0, a_dead_state, None)>>,
          captures |-> <<>>, trie_lexer_stack |-> USIZE_MAX,
          trie_gen_grammar |-> None, trie_gen_grammar_accepting |-> FALSE,
          token_idx |-> 0, byte_idx |-> 0, panic |-> "", ret |-> TRUE],
         LAMBDA r0 :
    Bind(r0.grammar.rules[r0.grammar.start], LAMBDA rs :
    Bind(add_unique_all(r0, [k \in 1..Len(rs) |-> Item(rs[k], 0)]), LAMBDA r1 :
    Bind(push_row(r1, 0, r1.row_start, bogus), LAMBDA r2 :
    IF ~(r2.ret /\ num_rows(r2) = 1 /\ Len(r2.rows) = 1)
    THEN Panic(r2, "initial push failed")
    ELSE assert_definitive(
            [r2 EXCEPT
               !.rows[1].allowed_lexemes = @ \ {SKIP},
               !.lexer_stack[1].lexer_state =
                   start_state(r0.grammar, r2.rows[1].allowed_lexemes \ {SKIP},
                               None),
               !.ret = TRUE])))))

(***************************************************************************)
(* The driver.  Each action is one call on the parser.  History variables: *)
(* last names the call, undo and saved hold what a speculative region is   *)
(* to restore.                                                             *)
(***************************************************************************)
VARIABLES
    ret_bytes,  \* the bytes a call returned: Vec<u8>, or Option<u8> as a
                \* sequence of at most one byte
    ret_str,    \* the message apply_tokens returned
    ret_set,    \* the token set compute_bias returned
    last,       \* the last call: [op, arg, mv, tokens]; a pushed byte is
                \* not recorded
    undo,       \* inside a speculative region: for each accepted byte not
                \* yet popped, the byte and the (depth, row, lexer state) it
                \* was pushed on
    saved,      \* the parser at the last trie_started, kept until the next
                \* definitive byte
    fed         \* the bytes committed one by one with try_push_byte_definitive
                \* since new; <<None>> once one of them was rejected

vars ==
    <<g, items, row_start, row_end, definitive, rows, row_infos, lexer_stack,
      captures, trie_lexer_stack, trie_gen_grammar,
      trie_gen_grammar_accepting, token_idx, byte_idx, panic, ret,
      ret_bytes, ret_str, ret_set, last, undo, saved, fed, bp, bp_last,
      bp_saved, bp_pushed, mp, cc, ac>>

\* the variables of the lexeme-level parser and of its driver
parser_vars ==
    <<g, items, row_start, row_end, definitive, rows, row_infos, lexer_stack,
      captures, trie_lexer_stack, trie_gen_grammar,
      trie_gen_grammar_accepting, token_idx, byte_idx, panic, ret,
      ret_bytes, ret_str, ret_set, last, undo, saved, fed>>

Call(op, arg) == [op |-> op, arg |-> arg, mv |-> "", tokens |-> <<>>]

\* what pop_bytes is to restore
Top(p) ==
    [depth |-> Len(p.lexer_stack), row_idx |-> lexer_state(p).row_idx,
     lexer_state |-> lexer_state(p).lexer_state]

\* the grammar in use
Alphabet == Grammars[g].alphabet

\* before the first speculative region nothing is saved
NoRegion == [new(1) EXCEPT !.g = 0]

\* the parser after a call; an aborted process keeps its memory as it was
CommitState(q) ==
    /\ UNCHANGED others
    /\ g' = g
    /\ panic' = q.panic
    /\ IF q.panic # ""
       THEN UNCHANGED <<items, row_start, row_end, definitive, rows, row_infos,
                        lexer_stack, captures, trie_lexer_stack,
                        trie_gen_grammar, trie_gen_grammar_accepting,
                        token_idx, byte_idx>>
       ELSE /\ items' = q.items
            /\ row_start' = q.row_start
            /\ row_end' = q.row_end
            /\ definitive' = q.definitive
            /\ rows' = q.rows
            /\ row_infos' = q.row_infos
            /\ lexer_stack' = q.lexer_stack
            /\ captures' = q.captures
            /\ trie_lexer_stack' = q.trie_lexer_stack
            /\ trie_gen_grammar' = q.trie_gen_grammar
            /\ trie_gen_grammar_accepting' = q.trie_gen_grammar_accepting
            /\ token_idx' = q.token_idx
            /\ byte_idx' = q.byte_idx

\* Option<u8> as a sequence
Option(b) == IF b = None THEN <<>> ELSE <<b>>

\* a call returning bool (or nothing)
Commit(q) ==
    /\ CommitState(q)
    /\ ret' = (q.panic = "" /\ q.ret)
    /\ ret_bytes' = <<>>
    /\ ret_str' = ""
    /\ ret_set' = {}

\* a call returning Option<u8>
CommitOption(q) ==
    /\ CommitState(q)
    /\ ret' = FALSE
    /\ ret_bytes' = IF q.panic # "" THEN <<>> ELSE Option(q.ret)
    /\ ret_str' = ""
    /\ ret_set' = {}

\* a call returning Vec<u8>
CommitBytes(q) ==
    /\ CommitState(q)
    /\ ret' = FALSE
    /\ ret_bytes' = IF q.panic # "" THEN <<>> ELSE q.ret
    /\ ret_str' = ""
    /\ ret_set' = {}

\* a call returning a message
CommitStr(q) ==
    /\ CommitState(q)
    /\ ret' = FALSE
    /\ ret_bytes' = <<>>
    /\ ret_str' = IF q.panic # "" THEN "" ELSE q.ret
    /\ ret_set' = {}

\* a call returning a token set
CommitSet(q) ==
    /\ CommitState(q)
    /\ ret' = FALSE
    /\ ret_bytes' = <<>>
    /\ ret_str' = ""
    /\ ret_set' = IF q.panic # "" THEN {} ELSE q.ret

\* a call returning (bool, token set)
CommitFlagSet(q) ==
    /\ CommitState(q)
    /\ ret' = (q.panic = "" /\ q.ret[1])
    /\ ret_bytes' = <<>>
    /\ ret_str' = ""
    /\ ret_set' = IF q.panic # "" THEN {} ELSE q.ret[2]

ParserInit(gs) ==
    \E gi \in gs :
        Bind(new(gi), LAMBDA p :
            /\ g = gi
            /\ items = p.items
            /\ row_start = p.row_start
            /\ row_end = p.row_end
            /\ definitive = p.definitive
            /\ rows = p.rows
            /\ row_infos = p.row_infos
            /\ lexer_stack = p.lexer_stack
            /\ captures = p.captures
            /\ trie_lexer_stack = p.trie_lexer_stack
            /\ trie_gen_grammar = p.trie_gen_grammar
            /\ trie_gen_grammar_accepting = p.trie_gen_grammar_accepting
            /\ token_idx = p.token_idx
            /\ byte_idx = p.byte_idx
            /\ panic = p.panic
            /\ ret = p.ret
            /\ ret_bytes = <<>>
            /\ ret_str = ""
            /\ ret_set = {}
            /\ last = Call("new", gi)
            /\ undo = <<>>
            /\ saved = NoRegion
            /\ fed = <<>>)

InitOn(gs) == ParserInit(gs) /\ Idle

Init == InitOn(Common)

InitAll == InitOn(1..Len(Grammars))

Running == panic = ""

CanPush == Len(lexer_stack) < MaxStack /\ Len(captures) < MaxCaptures

\* the call leaves the stack within the bound
Fits(q) == Len(q.lexer_stack) <= MaxStack /\ Len(q.captures) <= MaxCaptures

\* the bytes a nested grammar hands to scan_gen_grammar
InnerBytes == <<98>>

\* token sequences over the tokens spelled in the grammar's alphabet
Tokens == {t \in 1..Len(Vocab) :
              \A k \in 1..Len(token(t)) : token(t)[k] \in Grammars[g].alphabet}

TokenSeqs ==
    UNION {[1..n -> Tokens] : n \in 0..MaxTokens}

Pushed(by, b) == [top |-> Top(Self), by |-> by, byte |-> b]

TryPushByteDefinitive(b) ==
    /\ Running /\ definitive /\ CanPush
    /\ Bind(try_push_byte_definitive(Self, b), LAMBDA q :
            /\ Commit(q)
            /\ fed' = IF q.panic # "" THEN fed
                      ELSE IF ~q.ret \/ fed = <<None>> THEN <<None>>
                      ELSE Append(fed, b))
    /\ last' = Call("try_push_byte_definitive", None)
    /\ saved' = NoRegion
    /\ UNCHANGED undo

TrieStarted ==
    /\ Running /\ definitive
    /\ Commit(trie_started_inner(Self))
    /\ last' = Call("trie_started", None)
    /\ undo' = <<>>
    /\ saved' = Self
    /\ UNCHANGED fed

TryPushByte(b) ==
    /\ Running /\ ~definitive /\ CanPush
    /\ Bind(try_push_byte(Self, b), LAMBDA q :
            /\ Commit(q)
            /\ undo' = IF q.panic = "" /\ q.ret
                       THEN Append(undo, Pushed("try_push_byte", b)) ELSE undo)
    /\ last' = Call("try_push_byte", None)
    /\ UNCHANGED <<saved, fed>>

PopBytes(n) ==
    /\ Running /\ ~definitive /\ n <= Len(undo)
    /\ Commit(Return(pop_bytes(Self, n), TRUE))
    /\ last' = Call("pop_bytes", n)
    /\ undo' = SubSeq(undo, 1, Len(undo) - n)
    /\ UNCHANGED <<saved, fed>>

FlushLexer ==
    /\ Running /\ ~definitive /\ CanPush
    /\ Bind(flush_lexer(Self), LAMBDA q :
            /\ Commit(q)
            /\ undo' = IF q.panic = "" /\ Len(q.lexer_stack) > Len(lexer_stack)
                       THEN Append(undo, Pushed("flush_lexer", None)) ELSE undo)
    /\ last' = Call("flush_lexer", None)
    /\ UNCHANGED <<saved, fed>>

TrieFinished ==
    /\ Running /\ ~definitive
    /\ Commit(trie_finished_inner(Self))
    /\ last' = Call("trie_finished", None)
    /\ undo' = <<>>
    /\ UNCHANGED <<saved, fed>>

IsAccepting ==
    /\ Running /\ definitive
    /\ Commit(is_accepting(Self))
    /\ last' = Call("is_accepting", None)
    /\ UNCHANGED <<undo, saved, fed>>

ForcedByte ==
    /\ Running /\ definitive /\ CanPush
    /\ CommitOption(forced_byte(Self))
    /\ last' = Call("forced_byte", None)
    /\ UNCHANGED <<undo, saved, fed>>

ForceBytes ==
    /\ Running /\ definitive
    /\ Bind(force_bytes(Self), LAMBDA q : Fits(q) /\ CommitBytes(q))
    /\ last' = Call("force_bytes", None)
    /\ UNCHANGED <<undo, saved, fed>>

ScanModelVariable(mv) ==
    /\ Running /\ definitive /\ CanPush
    /\ Commit(scan_model_variable(Self, mv))
    /\ last' = [Call("scan_model_variable", None) EXCEPT !.mv = mv]
    /\ UNCHANGED <<undo, saved, fed>>

\* the nested grammar of a symbol the current row waits for has produced
\* InnerBytes
ScanGenGrammar(symidx) ==
    /\ Running /\ definitive /\ CanPush
    /\ Grammars[g].syms[symidx].gen_grammar
    /\ \E i \in item_indices(curr_row(Self)) :
          Grammars[g].rhs[items[i + 1].rule] = symidx
    /\ Commit(scan_gen_grammar(Self, symidx, InnerBytes))
    /\ last' = Call("scan_gen_grammar", symidx)
    /\ UNCHANGED <<undo, saved, fed>>

\* the driver's token list only grows from one call to the next
ApplyTokens(tokens, num_skip) ==
    /\ Running /\ definitive
    /\ last.op = "apply_tokens"
          => /\ IsPrefix(last.tokens, tokens)
             /\ Len(tokens) > Len(last.tokens)
             /\ num_skip = last.arg
    /\ Bind(apply_tokens(Self, tokens, num_skip),
            LAMBDA q : Fits(q) /\ CommitStr(q))
    /\ last' = [Call("apply_tokens", num_skip) EXCEPT !.tokens = tokens]
    /\ UNCHANGED <<undo, saved, fed>>

GetBytes ==
    /\ Running /\ definitive
    /\ CommitBytes(get_bytes(Self))
    /\ last' = Call("get_bytes", None)
    /\ UNCHANGED <<undo, saved, fed>>

\* the prefixes compute_bias is called with
Starts == {<<>>, <<97>>, <<99>>}

ComputeBias(start) ==
    /\ Running /\ definitive
    /\ Bind(compute_bias(Self, start), LAMBDA q : Fits(q) /\ CommitSet(q))
    /\ last' = Call("compute_bias", start)
    /\ UNCHANGED <<undo, saved, fed>>

ComputeBiasAfterGenGrammar(symidx) ==
    /\ Running /\ definitive
    /\ Grammars[g].syms[symidx].gen_grammar
    /\ \E i \in item_indices(curr_row(Self)) :
          Grammars[g].rhs[items[i + 1].rule] = symidx
    /\ Bind(compute_bias_after_gen_grammar(Self, symidx),
            LAMBDA q : Fits(q) /\ CommitFlagSet(q))
    /\ last' = Call("compute_bias_after_gen_grammar", symidx)
    /\ UNCHANGED <<undo, saved, fed>>

\* the lexer reports the end of lexeme lx (PreLexeme::just_idx); scan takes
\* any lexeme, whether the row allows it or not
ScanLexeme(lx) ==
    /\ Running /\ definitive /\ CanPush
    /\ Bind(advance_parser(Self, just_idx(lx)), LAMBDA q :
            /\ Commit(q)
            /\ fed' = IF q.panic = "" /\ q.ret THEN Append(fed, lx) ELSE fed)
    /\ last' = Call("scan", lx)
    /\ saved' = NoRegion
    /\ UNCHANGED undo

FilterMaxTokens ==
    /\ Running /\ definitive
    /\ \E wraps \in BOOLEAN : Commit(filter_max_tokens(Self, wraps))
    /\ last' = Call("filter_max_tokens", None)
    /\ UNCHANGED <<undo, saved, fed>>

\* the calls of a speculative region, between definitive bytes
Next ==
    \/ \E b \in Alphabet : TryPushByteDefinitive(b)
    \/ TrieStarted
    \/ \E b \in Alphabet : TryPushByte(b)
    \/ \E n \in 1..2 : PopBytes(n)
    \/ FlushLexer
    \/ TrieFinished

Spec == Init /\ [][Next]_vars

\* the queries and the forced bytes, between definitive bytes
NextQuery ==
    \/ \E b \in Alphabet : TryPushByteDefinitive(b)
    \/ IsAccepting
    \/ ForcedByte
    \/ ForceBytes
    \/ \E mv \in {"eos", "other"} : ScanModelVariable(mv)

SpecQuery == Init /\ [][NextQuery]_vars

\* bytes fed one by one, then token sequences applied
NextTokens ==
    \/ \E b \in Alphabet :
          last.op # "apply_tokens" /\ TryPushByteDefinitive(b)
    \/ \E tokens \in TokenSeqs, num_skip \in 0..1 : ApplyTokens(tokens, num_skip)

SpecTokens == Init /\ [][NextTokens]_vars

\* bytes and model variables fed one by one, then token sequences applied,
\* the rows filtered and the bytes read back in between
Feeding ==
    last.op \in {"new", "try_push_byte_definitive", "scan_model_variable",
                 "scan_gen_grammar"}

NextFilter ==
    \/ \E b \in Alphabet : Feeding /\ TryPushByteDefinitive(b)
    \/ \E mv \in {"eos", "other"} : Feeding /\ ScanModelVariable(mv)
    \/ \E symidx \in 1..Len(Grammars[g].syms) :
          Feeding /\ ScanGenGrammar(symidx)
    \/ \E tokens \in TokenSeqs : ApplyTokens(tokens, 0)
    \/ FilterMaxTokens
    \/ GetBytes

SpecFilter == Init /\ [][NextFilter]_vars

\* the token sets computed between definitive bytes and nested grammars
NextBias ==
    \/ \E b \in Alphabet : TryPushByteDefinitive(b)
    \/ \E symidx \in 1..Len(Grammars[g].syms) : ScanGenGrammar(symidx)
    \/ \E start \in Starts : ComputeBias(start)
    \/ \E symidx \in 1..Len(Grammars[g].syms) :
          ComputeBiasAfterGenGrammar(symidx)

SpecBias == Init /\ [][NextBias]_vars

\* lexemes handed to the parser one by one
NextScan ==
    \E lx \in (DOMAIN Grammars[g].lexemes) \ {SKIP} : ScanLexeme(lx)

SpecScan == Init /\ [][NextScan]_vars

\* bytes fed, one token applied, the rows filtered, and bytes fed again
NextSkip ==
    \/ \E b \in Alphabet :
          /\ last.op \in {"new", "try_push_byte_definitive", "filter_max_tokens"}
          /\ TryPushByteDefinitive(b)
    \/ \E tokens \in TokenSeqs :
          /\ last.op = "try_push_byte_definitive" /\ Len(tokens) = 1
          /\ ApplyTokens(tokens, 0)
    \/ last.op = "apply_tokens" /\ FilterMaxTokens

SpecSkip == Init /\ [][NextSkip]_vars

(***************************************************************************)
(* Claims.                                                                 *)
(***************************************************************************)
\* the frames popped by pop_bytes(n) were all pushed by try_push_byte
PopsBytes(n) ==
    \A k \in (Len(undo) - n + 1)..Len(undo) : undo[k].by = "try_push_byte"

\* C1: in a speculative region, pop_bytes(n) after n accepted bytes restores
\* the lexer_stack depth, the top frame's row_idx and the top frame's
\* lexer_state to what they were before the first of those bytes was pushed,
\* for every kind of push, hidden lookahead included.
C1_PopRestoresPush ==
    [][(last'.op = "pop_bytes" /\ PopsBytes(last'.arg))
         => /\ panic' = ""
            /\ Top(Self') = undo[Len(undo) - last'.arg + 1].top]_vars

\* C2: a speculative region built from try_push_byte, pop_bytes and
\* flush_lexer ends with trie_finished returning, the parser definitive
\* again, and num_rows(), the lexer_stack depth, row_infos.len() and
\* captures.len() what they were at trie_started.
C2_RunSpeculativeRestores ==
    [][last'.op = "trie_finished"
         => /\ panic' = ""
            /\ definitive'
            /\ num_rows(Self') = num_rows(saved)
            /\ Len(lexer_stack') = Len(saved.lexer_stack)
            /\ Len(row_infos') = Len(saved.row_infos)
            /\ Len(captures') = Len(saved.captures)]_vars

\* C3: whenever the parser is definitive and no call is in progress,
\* row_infos.len() = num_rows() = lexer_stack.last().row_idx + 1, so that
\* assert_definitive passes at the start of the next public call.
C3_RowInfosMatchRows ==
    (definitive /\ panic = "")
        => /\ Len(row_infos) = num_rows(Self)
           /\ num_rows(Self) = lexer_state(Self).row_idx + 1
           /\ assert_definitive(Self).panic = ""

\* C4: no call made in speculative mode changes captures or row_infos.
C4_SpeculationKeepsRecords ==
    [][~definitive => (captures' = captures /\ row_infos' = row_infos)]_vars

\* a speculative byte has completed a lexeme and pushed a row, in a parser
\* that holds a capture
C4_Witness ==
    /\ ~definitive /\ panic = ""
    /\ last.op = "try_push_byte" /\ ret
    /\ num_rows(Self) > Len(row_infos)
    /\ captures # <<>>

\* the parser p switched to speculative mode at its present stack depth
Speculating(p) ==
    [p EXCEPT !.definitive = FALSE, !.trie_lexer_stack = Len(p.lexer_stack)]

\* ending the pending lexeme succeeds (or nothing is pending) and the row
\* reached then holds a completed rule of the start symbol
AcceptingNow(p) ==
    LET G == Grammars[p.g]
        s == flush_lexer(Speculating(p))
        row == s.rows[s.lexer_stack[Len(s.lexer_stack)].row_idx + 1]
    IN  /\ s.panic = ""
        /\ s.ret
        /\ \E i \in row.first_item..(row.last_item - 1) :
              /\ G.rhs[s.items[i + 1].rule] = NULL
              /\ G.lhs[s.items[i + 1].rule] = G.start

\* the bytes of 0..=255 that try_push_byte accepts from the state p
AcceptedBytes(p) ==
    {b \in 0..255 :
        LET q == try_push_byte(Speculating(p), b)
        IN  q.panic = "" /\ q.ret}

\* what forced_byte is specified to return in the state p
ExpectedForced(p) ==
    IF AcceptingNow(p) THEN None
    ELSE IF Cardinality(AcceptedBytes(p)) = 1
    THEN CHOOSE b \in AcceptedBytes(p) : TRUE
    ELSE None

\* the definitive state is what it was before the call
DefinitiveStateKept ==
    /\ definitive'
    /\ lexer_stack' = lexer_stack
    /\ row_infos' = row_infos
    /\ captures' = captures

\* C5: forced_byte returns Some(b) exactly when the parser is not accepting
\* and b is the only byte of 0..=255 that try_push_byte accepts, returns None
\* otherwise, and leaves the definitive state as it was.
C5_ForcedByteUnique ==
    [][last'.op = "forced_byte"
         => /\ panic' = ""
            /\ ret_bytes' = Option(ExpectedForced(Self))
            /\ DefinitiveStateKept]_vars

\* feeds bytes definitively from p, each of them being the forced byte of the
\* state it is fed in; aborts where one is not
RECURSIVE ForcedRun(_, _)
ForcedRun(p, bytes) ==
    IF bytes = <<>> THEN p
    ELSE LET q == try_push_byte_definitive(p, Head(bytes))
         IN  IF AcceptedBytes(p) = {Head(bytes)} /\ q.panic = "" /\ q.ret
             THEN ForcedRun(q, Tail(bytes))
             ELSE Panic(p, "not a forced byte")

\* C6: force_bytes returns the bytes it committed, in order, each of them the
\* unique byte try_push_byte accepted where it was committed and accepted by
\* try_push_byte_definitive; on return forced_byte is None; for S -> "hello"
\* it returns the whole string from row 0 and the parser is then accepting.
C6_ForceBytesCommitsForced ==
    [][last'.op = "force_bytes"
         => /\ panic' = ""
            /\ LET e == ForcedRun(Self, ret_bytes')
               IN  /\ e.panic = ""
                   /\ e.lexer_stack = lexer_stack'
                   /\ e.row_infos = row_infos'
                   /\ e.captures = captures'
            /\ ExpectedForced(Self') = None
            /\ (g = 2 /\ Len(lexer_stack) = 1)
                  => /\ ret_bytes' = <<104, 101, 108, 108, 111>>
                     /\ AcceptingNow(Self')]_vars

\* C7: is_accepting returns true exactly when flushing the lexer succeeds (or
\* no bytes are pending) and the row then reached holds a completed item of
\* the start symbol; it leaves the stack depth, num_rows, row_infos and
\* captures as they were.
C7_IsAcceptingAfterFlush ==
    [][last'.op = "is_accepting"
         => /\ (panic' = "" /\ ret') <=> AcceptingNow(Self)
            /\ definitive'
            /\ Len(lexer_stack') = Len(lexer_stack)
            /\ num_rows(Self') = num_rows(Self)
            /\ row_infos' = row_infos
            /\ captures' = captures]_vars

\* commits the bytes of w one by one; ret tells whether all were accepted
RECURSIVE feed_definitive(_, _)
feed_definitive(p, w) ==
    IF w = <<>> THEN Return(p, TRUE)
    ELSE LET q == try_push_byte_definitive(p, Head(w))
         IN  IF q.panic # "" \/ ~q.ret THEN q
             ELSE feed_definitive(q, Tail(w))

\* the bytes pushed in the speculative region and not popped
UndoBytes == [k \in 1..Len(undo) |-> undo[k].byte]

\* the rows of the committed prefix, with their items
CommittedRows(p) ==
    [k \in 1..num_rows(p) |->
        [allowed_lexemes |-> p.rows[k].allowed_lexemes,
         items |-> row_items(p, p.rows[k])]]

\* words to commit after an exploration
Words == UNION {[1..n -> Grammars[g].alphabet] : n \in 1..2}

\* inside a region entered at the state saved, with the bytes w pushed and
\* accepted: a further byte b is accepted speculatively exactly when
\* committing w and b from saved accepts them
SpeculationAcceptsAsCommit ==
    (~definitive /\ panic = "" /\ PopsBytes(Len(undo)))
        => \A b \in Grammars[g].alphabet :
              LET s == try_push_byte(Self, b)
                  d == feed_definitive(saved, Append(UndoBytes, b))
              IN  /\ s.panic = ""
                  /\ d.panic = ""
                  /\ s.ret = d.ret

\* p is the parser after an exploration from the state saved: committing a
\* word that saved accepts gives the state that committing it from saved gives
CommitAfterExploration(p) ==
    \A w \in Words :
        LET d == feed_definitive(saved, w)
            e == feed_definitive(p, w)
        IN  (d.panic = "" /\ d.ret)
                => /\ e.panic = ""
                   /\ e.ret
                   /\ e.lexer_stack = d.lexer_stack
                   /\ CommittedRows(e) = CommittedRows(d)
                   /\ e.row_infos = d.row_infos
                   /\ e.captures = d.captures

\* C8: speculation does not change what is accepted: from one definitive
\* state the speculative path accepts a byte sequence exactly when committing
\* it does, and committing a word after an exploration yields the lexer
\* stack, committed rows, row_infos and captures of committing it directly.
C8_SpeculationEquivalence ==
    /\ SpeculationAcceptsAsCommit
    /\ last.op = "trie_finished"
         => (panic = "" /\ CommitAfterExploration(Self))

\* the bytes of a token sequence
TokenBytes(tokens) == Concat([k \in 1..Len(tokens) |-> token(tokens[k])])

\* row_infos without the token_idx annotations
WithoutTokenIdx(infos) ==
    [k \in 1..Len(infos) |->
        [infos[k] EXCEPT !.token_idx_start = 0, !.token_idx_stop = 0]]

\* the call is apply_tokens(trie, tokens, 0) on a parser that was fed the
\* bytes of tokens one by one, and accepted each
AppliesFedTokens ==
    /\ last'.op = "apply_tokens"
    /\ last'.arg = 0
    /\ last.op # "apply_tokens"
    /\ fed = TokenBytes(last'.tokens)

\* C9: apply_tokens(trie, tokens, 0) on a parser that has accepted exactly
\* the bytes of tokens, fed byte by byte, returns Ok("") and feeds no byte:
\* lexer_stack, rows, num_rows() and captures stay as they were and of
\* row_infos only token_idx_start and token_idx_stop change.
C9_ApplyTokensOnFedBytes ==
    [][AppliesFedTokens
         => /\ panic' = ""
            /\ ret_str' = ""
            /\ lexer_stack' = lexer_stack
            /\ rows' = rows
            /\ items' = items
            /\ num_rows(Self') = num_rows(Self)
            /\ captures' = captures
            /\ WithoutTokenIdx(row_infos') = WithoutTokenIdx(row_infos)]_vars

\* row_infos without the annotations apply_tokens rewrites
WithoutAnnotations(infos) ==
    [k \in 1..Len(infos) |->
        [infos[k] EXCEPT !.token_idx_start = 0, !.token_idx_stop = 0,
                         !.start_byte_idx = 0]]

\* no committed lexeme ended in hidden bytes
NoHiddenLexeme ==
    \A k \in 1..Len(row_infos) : row_infos[k].lexeme.hidden_len = 0

\* C9 (amended): apply_tokens(trie, tokens, 0) on a parser that has accepted
\* exactly the bytes of tokens, fed byte by byte, none of them hidden, returns
\* Ok("") and feeds no byte: lexer_stack, rows, num_rows() and captures stay
\* as they were and of row_infos only token_idx_start, token_idx_stop and
\* start_byte_idx change.
C9_ApplyTokensOnVisibleBytes ==
    [][(AppliesFedTokens /\ NoHiddenLexeme)
         => /\ panic' = ""
            /\ ret_str' = ""
            /\ lexer_stack' = lexer_stack
            /\ rows' = rows
            /\ items' = items
            /\ num_rows(Self') = num_rows(Self)
            /\ captures' = captures
            /\ WithoutAnnotations(row_infos') = WithoutAnnotations(row_infos)]_vars

\* apply_tokens has returned Ok("") for the one token "ab" on a parser that
\* was fed a and b, and has moved the second row's start_byte_idx
C9_Witness ==
    /\ last.op = "apply_tokens" /\ last.arg = 0 /\ panic = ""
    /\ last.tokens = <<2>> /\ fed = TokenBytes(last.tokens)
    /\ NoHiddenLexeme /\ ret_str = ""
    /\ Len(row_infos) = 2 /\ row_infos[2].start_byte_idx = 2

\* the token bytes apply_tokens does not skip
NonSkipped(tokens, num_skip) ==
    SubSeq(TokenBytes(tokens), num_skip + 1, Len(TokenBytes(tokens)))

\* what apply_tokens is specified to return in the state p
ExpectedApply(p, tokens, num_skip) ==
    LET bytes == NonSkipped(tokens, num_skip)
        parsed == get_bytes_and_lexeme_indices(p).allbytes
        n == Min(Len(bytes), Len(parsed))
        d == feed_definitive(p, SubSeq(bytes, n + 1, Len(bytes)))
    IN  IF \E k \in 1..n : bytes[k] # parsed[k] THEN "static reject"
        ELSE IF d.panic # "" THEN "abort"
        ELSE IF ~d.ret THEN "parse reject"
        ELSE ""

\* C10: apply_tokens takes the non-skipped token bytes in order and stops at
\* the first failing one: a byte inside the parsed bytes that differs from
\* the parsed byte gives "static reject" with no byte fed; a byte beyond them
\* that try_push_byte_definitive rejects gives "parse reject"; otherwise the
\* result is "" and token_idx is tokens.len().
C10_ApplyTokensStopsAtFirstFailure ==
    [][last'.op = "apply_tokens"
         => /\ panic' = ""
            /\ ret_str' = ExpectedApply(Self, last'.tokens, last'.arg)
            /\ ret_str' = "static reject"
                 => (lexer_stack' = lexer_stack /\ rows' = rows)
            /\ ret_str' = "" => token_idx' = Len(last'.tokens)]_vars

\* the items of the current row
CurrRowCount(p) == Cardinality(item_indices(curr_row(p)))

\* the call accepted at least one new byte
FedNewByte == last'.op = "apply_tokens" /\ panic' = "" /\ lexer_stack' # lexer_stack

\* C11: when apply_tokens has definitively fed a byte, it returns the error
\* about the row's size exactly when the current row holds more than MAX_ROW
\* items; a row of exactly MAX_ROW items is no error.
C11_RowOverflowIsErr ==
    [][FedNewByte
         => (ret_str' = "Err: current row has too many items"
               <=> CurrRowCount(Self') > MAX_ROW)]_vars

C11_Witness ==
    /\ last.op = "apply_tokens" /\ panic = ""
    /\ ret_str = "Err: current row has too many items"
    /\ CurrRowCount(Self) = MAX_ROW + 1

\* a row of exactly MAX_ROW items after apply_tokens fed a byte
C11_FullRowAccepted ==
    /\ last.op = "apply_tokens" /\ panic = "" /\ ret_str = ""
    /\ CurrRowCount(Self) = MAX_ROW

\* the bytes of the last token of the call
LastToken ==
    IF last'.tokens = <<>> THEN <<>> ELSE token(last'.tokens[Len(last'.tokens)])

\* the parser after the bytes of the last token were pushed one by one, and
\* before the last of them
LastTokenFed == feed_definitive(Self, LastToken)
BeforeLastByte == feed_definitive(Self, SubSeq(LastToken, 1, Len(LastToken) - 1))

\* apply_tokens(trie, tokens, 0) whose last token is the one token beyond the
\* bytes already parsed
AppliesOneNewToken ==
    /\ last'.op = "apply_tokens" /\ last'.arg = 0
    /\ panic' = ""
    /\ last'.tokens # <<>>
    /\ ret_str' \in {"", "parse reject on max_tokens"}
    /\ get_bytes(Self).ret
          = TokenBytes(SubSeq(last'.tokens, 1, Len(last'.tokens) - 1))

\* the bytes of the token are all accepted; q is LastTokenFed
TokenAccepted(q) == q.panic = "" /\ q.ret

\* the last byte of the token stayed in the row the byte before it was in
TokenEndsInItsRow(q) == num_rows(BeforeLastByte) = num_rows(q)

\* the lexemes possible after the token whose budget in the current row is
\* spent: token_idx + 1 - token_idx_start >= max_tokens
Exhausted(q) ==
    LET info == row_infos'[num_rows(q)]
    IN  {l \in possible_lexemes(lexer_state(q).lexer_state) :
            /\ l \in DOMAIN info.max_tokens
            /\ Len(last'.tokens) - info.token_idx_start >= info.max_tokens[l]}

\* the lexer state after the token, without the exhausted lexemes
Limited(q) ==
    LET st == lexer_state(q).lexer_state
    IN  limit_state_to(st, possible_lexemes(st) \ Exhausted(q))

\* the outcome of the budget check after the token
BudgetEnforced(q) ==
    IF Exhausted(q) = {}
    THEN lexer_stack' = q.lexer_stack /\ ret_str' = ""
    ELSE IF ~is_dead(Limited(q))
    THEN /\ lexer_stack' =
              [q.lexer_stack EXCEPT ![Len(q.lexer_stack)].lexer_state = Limited(q)]
         /\ ret_str' = ""
    ELSE LET eoi == try_push_byte_definitive(q, None)
         IN  IF eoi.ret
             THEN lexer_stack' = eoi.lexer_stack /\ ret_str' = ""
             ELSE ret_str' = "parse reject on max_tokens"

\* C12 (as stated): after the last byte of each definitively fed token,
\* every possible lexeme whose budget in the current row is exhausted is
\* removed from the lexer state; a dead limited state forces end-of-input,
\* whose failure gives "parse reject on max_tokens"; lexemes without a budget
\* stay.
C12_BudgetAfterEveryToken ==
    [][AppliesOneNewToken
         => \A q \in {LastTokenFed} :
               TokenAccepted(q) => BudgetEnforced(q)]_vars

\* C12 (amended): the budget is enforced after the last byte of a token only
\* when that byte did not push a new row; when it did, the lexer state is
\* left as the byte left it.
C12_BudgetWhenNoNewRow ==
    [][AppliesOneNewToken
         => \A q \in {LastTokenFed} :
               TokenAccepted(q)
                 => IF TokenEndsInItsRow(q) THEN BudgetEnforced(q)
                    ELSE lexer_stack' = q.lexer_stack /\ ret_str' = ""]_vars

C12_Witness ==
    /\ last.op = "apply_tokens" /\ panic = "" /\ ret_str = ""
    /\ Len(lexer_stack) >= 2
    /\ LET top == lexer_stack[Len(lexer_stack)]
           prev == lexer_stack[Len(lexer_stack) - 1]
           info == row_infos[top.row_idx + 1]
       IN  /\ top.row_idx = prev.row_idx
           /\ top.byte # None
           /\ ~is_dead(top.lexer_state)
           /\ \E l \in DOMAIN info.max_tokens :
                 /\ l \in possible_lexemes(transition(prev.lexer_state, top.byte))
                 /\ l \notin possible_lexemes(top.lexer_state)
                 /\ token_idx - info.token_idx_start >= info.max_tokens[l]

\* the budget check left no lexeme and forced the end of the lexeme: the
\* frame pushed last carries no byte, and the lexeme scanned is one whose
\* budget in the row before was spent
C12_ForcedEnd ==
    /\ last.op = "apply_tokens" /\ panic = "" /\ ret_str = ""
    /\ Len(lexer_stack) >= 2
    /\ LET top == lexer_stack[Len(lexer_stack)]
           prev == lexer_stack[Len(lexer_stack) - 1]
           info == row_infos[prev.row_idx + 1]
       IN  /\ top.row_idx = prev.row_idx + 1
           /\ top.byte = None
           /\ prev.byte # None
           /\ possible_lexemes(prev.lexer_state) # {}
           /\ \A l \in possible_lexemes(prev.lexer_state) :
                 /\ l \in DOMAIN info.max_tokens
                 /\ token_idx - info.token_idx_start >= info.max_tokens[l]

\* the token index at which the item's span starts: row_infos[start_pos + 1],
\* the sentinel standing for index num_rows()
SpanStart(p, item) ==
    IF item.start + 1 = Len(p.row_infos) THEN p.token_idx
    ELSE p.row_infos[item.start + 2].token_idx_start

\* the item's left-hand side has a finite budget and the item's token span
\* has reached it
SpanOverBudget(p, item) ==
    LET m == Grammars[p.g].syms[Grammars[p.g].lhs[item.rule]].max_tokens
    IN  m # USIZE_MAX /\ p.token_idx - SpanStart(p, item) >= m

\* filter_max_tokens is called on a parser that passes its entry assertion
FiltersRows ==
    /\ last'.op = "filter_max_tokens"
    /\ assert_definitive(Self).panic = ""

\* C13: filter_max_tokens removes from every committed row exactly the items
\* whose left-hand side has a finite budget m and whose token span
\* token_idx - row_infos[start_pos + 1].token_idx_start is >= m; the other
\* items keep their order, the rows' item ranges are rewritten to the
\* compacted positions, and row_infos.len(), lexer_stack and captures are
\* unchanged.
C13_FilterRemovesOverBudget ==
    [][FiltersRows
         => /\ panic' = ""
            /\ \A k \in 1..num_rows(Self) :
                  /\ row_items(Self', rows'[k])
                        = Filter(row_items(Self, rows[k]),
                                 LAMBDA item : ~SpanOverBudget(Self, item))
                  /\ rows'[k].first_item
                        = IF k = 1 THEN 0 ELSE rows'[k - 1].last_item
            /\ Len(row_infos') = Len(row_infos)
            /\ lexer_stack' = lexer_stack
            /\ captures' = captures]_vars

\* the captures of the items completed in row c of p, in the order of the
\* row: the visible bytes of the lexemes scanned from the item's origin row
\* up to row c, row_infos[r].lexeme being the lexeme scanned from row r
CompletedCaptures(p, c) ==
    LET G == Grammars[p.g]
        its == row_items(p, p.rows[c + 1])
        of(item) ==
            LET sd == G.syms[G.lhs[item.rule]]
            IN  (IF sd.stop_capture_name # ""
                 THEN << <<sd.stop_capture_name,
                           hidden_bytes(p.row_infos[c].lexeme)>> >>
                 ELSE <<>>)
                \o (IF sd.capture_name # ""
                    THEN << <<sd.capture_name,
                              Concat([k \in 1..(c - item.start) |->
                                  visible_bytes(
                                      p.row_infos[item.start + k].lexeme)])>> >>
                    ELSE <<>>)
    IN  IF p.row_infos[c].lexeme.idx = SKIP THEN <<>>
        ELSE Concat([k \in 1..Len(its) |->
                        IF G.rhs[its[k].rule] = NULL THEN of(its[k]) ELSE <<>>])

\* an accepted definitive byte
PushesDefinitiveByte ==
    last'.op = "try_push_byte_definitive" /\ panic' = "" /\ ret'

\* C14: in definitive mode every item with a captured left-hand side that
\* completes in a row appends (capture_name, bytes), bytes being the visible
\* bytes of the lexemes scanned from the item's origin row up to the current
\* lexeme, in completion order; no capture is ever removed or rewritten; and
\* S -> name:"abc" "!" fed abc! has the captures [("name", "abc")].
C14_CapturesAreLexemeBytes ==
    [][/\ IsPrefix(captures, captures')
       /\ PushesDefinitiveByte
             => captures' = captures \o
                   Concat([k \in 1..(num_rows(Self') - num_rows(Self)) |->
                       CompletedCaptures(Self', num_rows(Self) + k - 1)])
       /\ g = 3 /\ fed' = <<97, 98, 99, 33>>
             => captures' = << <<"name", <<97, 98, 99>>>> >>]_vars

\* the Some(byte) values of the lexer_stack frames, bottom to top
StackBytes(p) ==
    LET some == Filter(p.lexer_stack, LAMBDA f : f.byte # None)
    IN  [k \in 1..Len(some) |-> some[k].byte]

\* the parser is what new and the accepted definitive pushes of the bytes
\* fed so far make it
OnlyBytesFed ==
    /\ fed # <<None>>
    /\ LET p == feed_definitive(new(g), fed)
       IN  /\ p.panic = "" /\ p.ret
           /\ p.lexer_stack = lexer_stack
           /\ p.rows = rows
           /\ p.row_infos = row_infos

\* C15 (as stated): after accepted definitive byte pushes, get_bytes() is the
\* sequence of the Some(byte) values of the lexer_stack frames, bottom to top,
\* which is the sequence of the bytes fed so far.
C15_GetBytesIsStackBytes ==
    [][last'.op = "get_bytes" /\ OnlyBytesFed
         => /\ panic' = ""
            /\ ret_bytes' = StackBytes(Self)
            /\ ret_bytes' = fed]_vars

\* C15 (amended): after accepted definitive byte pushes that completed no
\* lexeme with hidden bytes, get_bytes() is the sequence of the bytes fed so
\* far: the visible bytes of the lexemes recorded in row_infos followed by
\* the Some(byte) values of the lexer_stack frames of the current row.
C15_GetBytesIsFedBytes ==
    [][last'.op = "get_bytes" /\ OnlyBytesFed /\ NoHiddenLexeme
         => /\ panic' = ""
            /\ ret_bytes' = fed
            /\ ret_bytes' =
                  Concat([k \in 1..Len(row_infos) |->
                             visible_bytes(row_infos[k].lexeme)])
                  \o curr_row_bytes(Self)]_vars

\* get_bytes() after the two bytes of a completed lexeme and one byte of the
\* next, the lexer_stack holding only some of them
C15_Witness ==
    /\ last.op = "get_bytes" /\ panic = ""
    /\ ret_bytes = fed
    /\ Len(fed) >= 2
    /\ StackBytes(Self) # fed
    /\ StackBytes(Self) # <<>>

\* C16: the lexer_stack is never empty and its bottom frame is the initial
\* frame (row_idx 0, no byte); the pops the parser issues itself, in
\* trie_finished_inner and handle_hidden_bytes, always leave a frame, so
\* that only a pop_bytes of the caller can fail pop_lexer_states' assertion.
C16_InitialFrameStays ==
    /\ Len(lexer_stack) >= 1
    /\ lexer_stack[1].row_idx = 0
    /\ lexer_stack[1].byte = None
    /\ panic \in {"pop_lexer_states", "trie_finished: stack below the saved depth"}
          => last.op = "pop_bytes"

\* handle_hidden_bytes has popped the frame of 'a' and pushed the two hidden
\* bytes as frames of row 1
C16_Witness ==
    /\ g = 4 /\ definitive /\ panic = ""
    /\ fed = <<97, 98>>
    /\ Len(lexer_stack) = 3
    /\ lexer_stack[2].row_idx = 1 /\ lexer_stack[2].byte = 97
    /\ lexer_stack[3].row_idx = 1 /\ lexer_stack[3].byte = 98

\* C17: 1 <= num_rows() <= rows.len() in every state: rows may hold shadow
\* rows beyond the one the top frame addresses, but that row exists and rows
\* is never empty.
C17_TopRowExists ==
    /\ 1 <= num_rows(Self)
    /\ num_rows(Self) <= Len(rows)

\* back in definitive mode with a shadow row left by the speculation
C17_Witness ==
    /\ last.op = "trie_finished" /\ panic = "" /\ definitive
    /\ Len(rows) > num_rows(Self)

\* no two items of the sequence are equal (same rule position, same origin)
Distinct(its) == \A i, j \in 1..Len(its) : i # j => its[i] # its[j]

\* C18: no committed row, whether built by scan, scan_skip_lexeme or
\* scan_gen_grammar or left by filter_max_tokens, holds the same item twice,
\* and neither does the row scan_model_variable has just pushed.
C18_RowItemsDistinct ==
    panic = ""
      => /\ \A k \in 1..num_rows(Self) : Distinct(row_items(Self, rows[k]))
         /\ (last.op = "scan_model_variable" /\ ret
                /\ Len(row_infos) > num_rows(Self))
              => Distinct(row_items(Self, rows[num_rows(Self) + 1]))

\* a committed row that scan_skip_lexeme copied from the row before it
C18_Witness ==
    /\ panic = "" /\ num_rows(Self) >= 3
    /\ row_infos[2].lexeme = Lexeme(SKIP, <<120>>, 0)
    /\ row_items(Self, rows[3]) = row_items(Self, rows[2])
    /\ rows[3].first_item = rows[2].last_item

\* the item's left-hand side carries a token budget
HasBudget(it) ==
    Grammars[g].syms[Grammars[g].lhs[it.rule]].max_tokens # USIZE_MAX

\* C19: every item of a committed row r starts at a row s <= r, so s is below
\* num_rows(); the completer's rows[item.start_pos()] and filter_max_tokens'
\* row_infos[item.start_pos() + 1], the sentinel included, never index out
\* of bounds.
C19_StartPosInRow ==
    /\ panic = ""
         => \A r \in 1..num_rows(Self) :
               \A k \in 1..Len(row_items(Self, rows[r])) :
                  /\ row_items(Self, rows[r])[k].start <= r - 1
                  /\ row_items(Self, rows[r])[k].start < num_rows(Self)
    /\ panic \notin {"push_row: rows index out of bounds",
                     "filter_max_tokens: row_infos index out of bounds",
                     "filter_max_tokens: rows index out of bounds"}

\* filter_max_tokens has read the sentinel: an item with a budget starts in
\* the top row, and row_infos was one entry per row
C19_Witness ==
    /\ last.op = "filter_max_tokens" /\ panic = ""
    /\ num_rows(Self) >= 2 /\ Len(row_infos) = num_rows(Self)
    /\ \E k \in 1..Len(row_items(Self, curr_row(Self))) :
          /\ HasBudget(row_items(Self, curr_row(Self))[k])
          /\ row_items(Self, curr_row(Self))[k].start = num_rows(Self) - 1

\* the completer has read an earlier row: the top row holds a complete item
\* that started two rows below
C19_CompletedFromEarlierRow ==
    /\ panic = "" /\ num_rows(Self) = 3
    /\ \E k \in 1..Len(row_items(Self, curr_row(Self))) :
          /\ Grammars[g].rhs[row_items(Self, curr_row(Self))[k].rule] = NULL
          /\ row_items(Self, curr_row(Self))[k].start = 0

\* C20: row 0 never allows the SKIP lexeme, neither after new nor after any
\* later call, and every other row, the rows built by push_row and the rows
\* scan_skip_lexeme copies from them, allows it.
C20_SkipOnlyAboveRowZero ==
    /\ SKIP \notin rows[1].allowed_lexemes
    /\ \A k \in 2..Len(rows) : SKIP \in rows[k].allowed_lexemes

\* with "x" the skip lexeme: row 1 was pushed by the lexeme "a" and allows
\* SKIP, and "x" was then scanned from it
C20_Witness ==
    /\ g = 15 /\ panic = "" /\ num_rows(Self) = 3
    /\ row_infos[1].lexeme = Lexeme(1, <<97>>, 0)
    /\ row_infos[2].lexeme = Lexeme(SKIP, <<120>>, 0)
    /\ SKIP \in rows[2].allowed_lexemes
    /\ SKIP \notin rows[1].allowed_lexemes

\* "x", the only byte the start of S -> "a" ... can refuse, is rejected in
\* row 0: row 0 does not allow SKIP
C20_SkipRejectedAtStart ==
    /\ g = 15 /\ last.op = "try_push_byte_definitive"
    /\ ~ret /\ panic = "" /\ num_rows(Self) = 1 /\ Len(row_infos) = 1

\* the rows committed in p, and the number of item slots they occupy
CommittedRowSlots(p) == SubSeq(p.rows, 1, num_rows(p))
CommittedItemCount(p) == p.rows[num_rows(p)].last_item

\* a speculative region is open, or has just been closed
InRegion == saved.g # 0 /\ (~definitive \/ last.op = "trie_finished")

(***************************************************************************)
(* force_bytes, one iteration of its loop at a time.  While the call is    *)
(* inside the loop last.op is "force_bytes_loop" and ret_bytes holds the   *)
(* bytes pushed so far; saved is the parser at the call.                   *)
(***************************************************************************)
InForceBytes == last.op = "force_bytes_loop"

\* the loop is followed up to this stack depth
MaxForced == 2 * MaxStack

\* force_bytes up to the head of its loop
ForceBytesStart ==
    /\ Running /\ definitive /\ ~InForceBytes
    /\ Bind(assert_definitive(Self), LAMBDA q :
            /\ CommitBytes(Return(q, <<>>))
            /\ last' = Call(IF q.panic # "" THEN "force_bytes"
                            ELSE "force_bytes_loop", None))
    /\ saved' = Self
    /\ UNCHANGED <<undo, fed>>

\* the call is at the head of its loop
CanIter ==
    /\ Running /\ InForceBytes
    /\ Len(lexer_stack) < MaxForced

\* one turn of the while-let loop, or the exit from it
ForceBytesIter ==
    /\ CanIter
    /\ \E f \in {forced_byte(Self)} :
       IF f.panic # "" \/ f.ret = None
       THEN /\ CommitBytes(Return(f, ret_bytes))
            /\ last' = Call("force_bytes", None)
       ELSE \E q \in {try_push_byte_definitive(f, f.ret)} :
            /\ CommitBytes(Return(q, IF q.panic = "" /\ q.ret
                                     THEN Append(ret_bytes, f.ret)
                                     ELSE ret_bytes))
            /\ last' = Call(IF q.panic = "" /\ q.ret THEN "force_bytes_loop"
                            ELSE "force_bytes", None)
    /\ UNCHANGED <<undo, saved, fed>>

NextForce ==
    \/ ~InForceBytes /\ \E b \in Alphabet : TryPushByteDefinitive(b)
    \/ ForceBytesStart
    \/ ForceBytesIter

\* a turn of the loop as the caller sees it: the call returns, or one more
\* byte is forced; in NextForce only ForceBytesIter takes such a step
Turn ==
    /\ CanIter
    /\ \/ last' = Call("force_bytes", None) /\ ret_bytes' = ret_bytes
       \/ /\ last' = last
          /\ \E b \in 0..255 : ret_bytes' = Append(ret_bytes, b)

\* the call is not suspended: a turn of the loop that can be taken is taken
SpecForce == InitAll /\ [][NextForce]_vars /\ WF_<<last, ret_bytes>>(Turn)

(***************************************************************************)
(* The driver of the byte-level parser: definitive scans, and speculative  *)
(* regions in which bytes are pushed and popped.                           *)
(***************************************************************************)
ByteCall(op, arg) == [op |-> op, arg |-> arg]

ByteRunning == bp.panic = ""

\* Parser::scan in definitive mode (as apply_tokens and force_bytes call it)
ByteScan(b) ==
    /\ ByteRunning /\ bp.definitive /\ byte_num_rows(bp) < MaxByteRows
    /\ bp' = byte_scan(bp, b)
    /\ bp_last' = ByteCall("scan", b)
    /\ UNCHANGED <<bp_saved, bp_pushed>>
    /\ UNCHANGED <<parser_vars, beside_byte>>

ByteTrieStarted ==
    /\ ByteRunning /\ bp.definitive
    /\ bp' = byte_trie_started(bp)
    /\ bp_last' = ByteCall("trie_started", None)
    /\ bp_saved' = bp
    /\ bp_pushed' = 0
    /\ UNCHANGED <<parser_vars, beside_byte>>

ByteTryPushByte(b) ==
    /\ ByteRunning /\ ~bp.definitive /\ bp_pushed < MaxBytePushed
    /\ bp' = byte_try_push_byte(bp, b)
    /\ bp_last' = ByteCall("try_push_byte", b)
    /\ bp_pushed' = IF bp'.panic = "" /\ bp'.ret THEN bp_pushed + 1
                    ELSE bp_pushed
    /\ UNCHANGED bp_saved
    /\ UNCHANGED <<parser_vars, beside_byte>>

\* pop_bytes of bytes pushed in the region
BytePopBytes(n) ==
    /\ ByteRunning /\ ~bp.definitive /\ n <= bp_pushed
    /\ bp' = byte_pop_bytes(bp, n)
    /\ bp_last' = ByteCall("pop_bytes", n)
    /\ bp_pushed' = bp_pushed - n
    /\ UNCHANGED bp_saved
    /\ UNCHANGED <<parser_vars, beside_byte>>

ByteTrieFinished ==
    /\ ByteRunning /\ ~bp.definitive
    /\ bp' = byte_trie_finished(bp)
    /\ bp_last' = ByteCall("trie_finished", None)
    /\ bp_pushed' = 0
    /\ UNCHANGED bp_saved
    /\ UNCHANGED <<parser_vars, beside_byte>>

InitByte ==
    /\ ParserInit({1}) /\ MapIdle /\ CmdIdle /\ AsyncIdle
    /\ \E gi \in 1..Len(ByteGrammars) :
          /\ bp = byte_new(gi)
          /\ bp_last = ByteCall("new", gi)
          /\ bp_saved = byte_new(gi)
          /\ bp_pushed = 0

NextByte ==
    \/ \E b \in bp.grammar.alphabet : ByteScan(b)
    \/ ByteTrieStarted
    \/ \E b \in bp.grammar.alphabet : ByteTryPushByte(b)
    \/ \E n \in 1..2 : BytePopBytes(n)
    \/ ByteTrieFinished

SpecByte == InitByte /\ [][NextByte]_vars

(***************************************************************************)
(* map_ast, one turn of its loop per step, on every tree of Asts and with  *)
(* both closures.                                                          *)
(***************************************************************************)
MapExpand ==
    /\ mp.pc = "loop" /\ expands(mp)
    /\ mp' = map_ast_turn(mp)
    /\ UNCHANGED <<parser_vars, beside_map>>

MapApply ==
    /\ mp.pc = "loop" /\ ~expands(mp)
    /\ mp' = map_ast_turn(mp)
    /\ UNCHANGED <<parser_vars, beside_map>>

InitMap ==
    /\ ParserInit({1}) /\ ByteIdle /\ CmdIdle /\ AsyncIdle
    /\ \E root \in Asts, kind \in {"term", "count"} :
          mp = map_ast_start(root, kind)

NextMap == MapExpand \/ MapApply

SpecMap == InitMap /\ [][NextMap]_vars

(***************************************************************************)
(* The caller of CmdChannel::exec and the process at the other end.  An    *)
(* exec is two steps, up to the recv of expect and from it, with the other *)
(* process's answer between them.                                          *)
(***************************************************************************)
CmdExecSend(op, serializable, sent) ==
    /\ cc.pc = "idle" /\ cc.execs < MaxExecs
    /\ cc' = exec_send(cc, op, serializable, sent)
    /\ UNCHANGED <<parser_vars, beside_cmd>>

\* the other process takes a command and writes a response
CmdRespond(resp) ==
    /\ cc.cmd_ch # <<>>
    /\ cc' = [cc EXCEPT !.cmd_ch = Tail(@), !.resp_ch = Append(@, resp)]
    /\ UNCHANGED <<parser_vars, beside_cmd>>

CmdExecExpect(received) ==
    /\ cc.pc = "expect"
    /\ received => cc.resp_ch # <<>>
    /\ cc' = expect(cc, received)
    /\ UNCHANGED <<parser_vars, beside_cmd>>

InitCmd ==
    ParserInit({1}) /\ ByteIdle /\ MapIdle /\ AsyncIdle /\ cc = cmd_new

NextCmd ==
    \/ \E op \in Ops, serializable, sent \in BOOLEAN :
          CmdExecSend(op, serializable, sent)
    \/ \E resp \in Responses : CmdRespond(resp)
    \/ \E received \in BOOLEAN : CmdExecExpect(received)

SpecCmd == InitCmd /\ [][NextCmd]_vars

(***************************************************************************)
(* The calls of AsyncCmdChannel::exec, the reader thread, and the process  *)
(* at the other end, which answers the requests it has read, each once and *)
(* in any order, with the request's $rid.                                  *)
(***************************************************************************)
ExecInsert(c, rid, serializable) ==
    /\ ac.call[c].pc = "start"
    /\ \A d \in Calls : ac.call[d].rid # rid
    /\ ac' = exec_insert(ac, c, rid, serializable)
    /\ UNCHANGED <<parser_vars, beside_async>>

ExecWrite(c, sent) ==
    /\ ac.call[c].pc = "inserted"
    /\ ac' = exec_write(ac, c, sent)
    /\ UNCHANGED <<parser_vars, beside_async>>

ExecAwait(c) ==
    /\ ac.call[c].pc = "awaiting" /\ ac.call[c].rx # <<>>
    /\ ac' = exec_await(ac, c)
    /\ UNCHANGED <<parser_vars, beside_async>>

\* the caller drops the future at its await
ExecDrop(c) ==
    /\ ac.call[c].pc = "awaiting"
    /\ ac' = [ac EXCEPT !.call[c].pc = "dropped"]
    /\ UNCHANGED <<parser_vars, beside_async>>

\* the other process answers the i-th of the requests not yet answered
AsyncRespond(i, type, data) ==
    /\ i \in 1..Len(ac.cmd_ch)
    /\ ac' = [ac EXCEPT
                !.cmd_ch = SubSeq(@, 1, i - 1) \o SubSeq(@, i + 1, Len(@)),
                !.resp_ch = Append(@, AResp(ac.cmd_ch[i], type, data))]
    /\ UNCHANGED <<parser_vars, beside_async>>

\* the other process writes a response to no request, with a $rid no call
\* has made (0) or with none, when no such response waits to be read
AsyncRespondUnasked(rid) ==
    /\ \A i \in 1..Len(ac.resp_ch) : ac.resp_ch[i].rid \in Rids
    /\ ac' = [ac EXCEPT !.resp_ch = Append(@, AResp(rid, "error", "none"))]
    /\ UNCHANGED <<parser_vars, beside_async>>

ReaderTurn ==
    /\ ac.reader = "running" /\ ac.resp_ch # <<>>
    /\ ac' = reader_turn(ac)
    /\ UNCHANGED <<parser_vars, beside_async>>

InitAsync ==
    ParserInit({1}) /\ ByteIdle /\ MapIdle /\ CmdIdle /\ ac = async_new

NextAsync ==
    \/ \E c \in Calls, rid \in Rids, serializable \in BOOLEAN :
          ExecInsert(c, rid, serializable)
    \/ \E c \in Calls, sent \in BOOLEAN : ExecWrite(c, sent)
    \/ \E c \in Calls : ExecAwait(c)
    \/ \E c \in Calls : ExecDrop(c)
    \/ \E i \in Calls :
          \/ AsyncRespond(i, "ok", "good")
          \/ AsyncRespond(i, "ok", "none")
          \/ AsyncRespond(i, "error", "none")
    \/ ReaderTurn

SpecAsync == InitAsync /\ [][NextAsync]_vars

\* The calls that are sent and answered, with responses to no request as
\* well.  The reader thread is a thread of its own and the runtime polls a
\* call whose rx has a value, so neither waits for ever when it can take its
\* step.
NextAsyncUnasked ==
    \/ \E c \in Calls : ExecInsert(c, c, TRUE)
    \/ \E c \in Calls : ExecWrite(c, TRUE)
    \/ \E c \in Calls : ExecAwait(c)
    \/ \E c \in Calls : ExecDrop(c)
    \/ \E i \in Calls : AsyncRespond(i, "ok", "good")
    \/ \E rid \in {0, None} : AsyncRespondUnasked(rid)
    \/ ReaderTurn

SpecAsyncFair ==
    /\ InitAsync /\ [][NextAsyncUnasked]_vars
    /\ WF_vars(ReaderTurn)
    /\ \A c \in Calls : WF_vars(ExecAwait(c))

\* lexemes are scanned on every grammar, the recursive ones included
SpecAgenda == InitAll /\ [][NextScan]_vars

\* C21: between trie_started and trie_finished no row committed at
\* trie_started and no item slot of such a row is written: speculative rows
\* use the row slots and item slots beyond the committed prefix only.
C21_CommittedStorageKept ==
    InRegion
      => /\ Len(rows) >= num_rows(saved)
         /\ SubSeq(rows, 1, num_rows(saved)) = CommittedRowSlots(saved)
         /\ Len(items) >= CommittedItemCount(saved)
         /\ SubSeq(items, 1, CommittedItemCount(saved))
               = SubSeq(saved.items, 1, CommittedItemCount(saved))

\* a speculative byte has pushed a row beyond the committed prefix, over
\* the item slots that an earlier speculation had filled differently
C21_Witness ==
    /\ ~definitive /\ panic = "" /\ saved.g # 0
    /\ last.op = "try_push_byte" /\ ret
    /\ num_rows(Self) > num_rows(saved)
    /\ Len(saved.rows) > num_rows(saved)
    /\ \E k \in (CommittedItemCount(saved) + 1)..Len(saved.items) :
          items[k] # saved.items[k]

\* the current row has pending lexeme bytes and the lexer accepts
\* end-of-input in the top frame's state
AllowsEosAt(p) ==
    /\ \E k \in 1..Len(p.lexer_stack) :
          /\ p.lexer_stack[k].row_idx = lexer_state(p).row_idx
          /\ p.lexer_stack[k].byte # None
    /\ allows_eos(Grammars[p.g], lexer_state(p).lexer_state)

\* compute_bias has returned
ComputedBias == last'.op = "compute_bias" /\ panic' = ""

\* the lexer is flushed exactly when the walk allowed no token
FlushedOnlyWhenNothingAllowed ==
    IF ret_set' \ {EosToken} # {}
    THEN /\ lexer_stack' = lexer_stack /\ row_infos' = row_infos
         /\ captures' = captures
    ELSE /\ lexer_stack' = flush_lexer(Self).lexer_stack
         /\ row_infos' = flush_lexer(Self).row_infos
         /\ captures' = flush_lexer(Self).captures

\* C22: compute_bias(trie, start) allows the EOS token iff start is empty
\* and lexer_allows_eos() holds, i.e. the current row has pending lexeme
\* bytes and the lexer accepts end-of-input in the top frame's state, both
\* read where compute_bias reads them, after the flush; the lexer is flushed
\* only when the token walk allowed no token.
C22_EosIffLexerAllowsAfterFlush ==
    [][ComputedBias
         => /\ (EosToken \in ret_set')
                  <=> (last'.arg = <<>> /\ AllowsEosAt(Self'))
            /\ FlushedOnlyWhenNothingAllowed]_vars

\* the EOS token was allowed next to a token of the walk
C22_Witness ==
    /\ last.op = "compute_bias" /\ panic = ""
    /\ EosToken \in ret_set /\ ret_set # {EosToken}
    /\ AllowsEosAt(Self)

\* the walk allowed nothing and the flush has ended the pending lexeme: a
\* row was committed and the EOS token is not allowed
C22_FlushedNoEos ==
    /\ last = Call("compute_bias", <<>>) /\ panic = "" /\ g = 16
    /\ ret_set = {} /\ num_rows(Self) = 3 /\ Len(row_infos) = 3

\* the failures of the mode assertions: assert_definitive, the assertions
\* of trie_finished_inner and those of the two byte pushes
ModeAssertions ==
    {"assert_definitive: not definitive",
     "assert_definitive: num_rows != row_infos",
     "trie_finished: definitive", "trie_finished: row_infos > num_rows",
     "try_push_byte: definitive", "try_push_byte_definitive: speculative"}

\* the operations that open and close speculative regions themselves
OwnRegions == {"is_accepting", "forced_byte", "force_bytes", "compute_bias",
               "compute_bias_after_gen_grammar"}

\* trie_started saves the depth and leaves definitive mode; trie_finished
\* pops to exactly the saved depth and returns to definitive mode with
\* row_infos.len() == num_rows()
RegionBrackets ==
    [][/\ (last'.op = "trie_started" /\ panic' = "")
            => /\ definitive /\ Len(row_infos) = num_rows(Self)
               /\ ~definitive' /\ trie_lexer_stack' = Len(lexer_stack)
               /\ lexer_stack' = lexer_stack
       /\ (last'.op = "trie_finished" /\ panic' = "")
            => /\ ~definitive /\ definitive'
               /\ Len(lexer_stack') = trie_lexer_stack
               /\ lexer_stack' = SubSeq(lexer_stack, 1, trie_lexer_stack)
               /\ Len(row_infos') = num_rows(Self')]_vars

\* C23: trie_started and trie_finished bracket a speculative region and
\* alternate; no call of forced_byte, is_accepting, force_bytes or
\* compute_bias, made in definitive mode on a parser its own operations have
\* left, fails a mode assertion.
C23_OwnCallsKeepModeAssertions ==
    last.op \in OwnRegions => panic \notin ModeAssertions

\* The textbook Earley sets, computed apart from push_row: items as a set,
\* predictor and completer applied until nothing is added; the completer
\* looks for the waiting items in the set the completed item started in,
\* the set under construction included.
Predicted(G, S, k) ==
    UNION {{Item(G.rules[G.rhs[it.rule]][j], k) :
               j \in 1..Len(G.rules[G.rhs[it.rule]])} :
           it \in {i \in S : G.rhs[i.rule] # NULL}}

Completed(G, S, prev, k) ==
    UNION {{advance_dot(w) :
               w \in {v \in (IF c.start = k THEN S ELSE prev[c.start + 1]) :
                         G.rhs[v.rule] = G.lhs[c.rule]}} :
           c \in {i \in S : G.rhs[i.rule] = NULL}}

RECURSIVE EarleyClosure(_, _, _, _)
EarleyClosure(G, S, prev, k) ==
    Bind(S \cup Predicted(G, S, k) \cup Completed(G, S, prev, k), LAMBDA T :
    IF T = S THEN S ELSE EarleyClosure(G, T, prev, k))

\* the scanner: the items of E waiting for lexeme lx, dot advanced
Scanned(G, E, lx) ==
    {advance_dot(it) :
        it \in {i \in E : /\ G.rhs[i.rule] # NULL
                          /\ G.syms[G.rhs[i.rule]].lexeme = lx}}

\* the Earley sets 0 .. Len(lexemes) of a lexeme sequence
RECURSIVE EarleySets(_, _)
EarleySets(G, lexemes) ==
    IF lexemes = <<>>
    THEN <<EarleyClosure(G, {Item(G.rules[G.start][j], 0) :
                                j \in 1..Len(G.rules[G.start])}, <<>>, 0)>>
    ELSE Bind(EarleySets(G, SubSeq(lexemes, 1, Len(lexemes) - 1)), LAMBDA prev :
         Append(prev,
                EarleyClosure(G, Scanned(G, prev[Len(lexemes)],
                                         lexemes[Len(lexemes)]),
                              prev, Len(lexemes))))

\* the longest sentence looked at
MaxSentence == MaxStack + 1

\* the symbols of the production that starts at rule position r
RECURSIVE RuleSyms(_, _)
RuleSyms(G, r) ==
    IF G.rhs[r] = NULL THEN <<>> ELSE <<G.rhs[r]>> \o RuleSyms(G, r + 1)

\* the lexeme sequences of at most MaxSentence lexemes that the symbols syms
\* derive in at most d nested productions; a symbol without lexeme and
\* without productions (a model variable, a nested grammar) stands for
\* itself
RECURSIVE Yield(_, _, _)
Yield(G, syms, d) ==
    IF syms = <<>> THEN {<<>>}
    ELSE
    Bind(G.syms[Head(syms)], LAMBDA sd :
    Bind(IF sd.lexeme # None THEN {<<sd.lexeme>>}
         ELSE IF Len(G.rules[Head(syms)]) = 0 THEN {<<USIZE_MAX - Head(syms)>>}
         ELSE IF d = 0 THEN {}
         ELSE UNION {Yield(G, RuleSyms(G, G.rules[Head(syms)][j]), d - 1) :
                        j \in 1..Len(G.rules[Head(syms)])}, LAMBDA first :
    IF first = {} THEN {}
    ELSE {x \o y : x \in first,
                   y \in {z \in Yield(G, Tail(syms), d) :
                             Len(z) < MaxSentence}}))

\* the grammar's lexeme language, up to MaxSentence lexemes
Sentences(G) == {w \in Yield(G, <<G.start>>, MaxSentence) : Len(w) <= MaxSentence}

ViablePrefix(G, lexemes) == \E w \in Sentences(G) : IsPrefix(lexemes, w)

\* the items of the committed row k of the parser, as a set
RowSet(k) == {items[i + 1] : i \in item_indices(rows[k + 1])}

\* C24: the row scan and push_row produce is the Earley set of the lexemes
\* scanned so far (seeds, predictions, nullable advances and completions to
\* the fixpoint), and scan returns true iff that set is not empty, i.e. iff
\* the lexemes scanned so far with the new one are a viable prefix of the
\* grammar's lexeme language.
C24_RowIsEarleySet ==
    [][(last'.op = "scan" /\ panic' = "")
         => /\ ret' <=> ViablePrefix(Grammars[g], Append(fed, last'.arg))
            /\ ret' <=> EarleySets(Grammars[g],
                                   Append(fed, last'.arg))[Len(fed) + 2] # {}
            /\ num_rows(Self') = Len(fed') + 1
            /\ \A k \in 0..Len(fed') :
                  RowSet(k)' = EarleySets(Grammars[g], fed')[k + 1]]_vars

\* a row built with a nullable advance, a prediction and a completion: after
\* b, c of S -> A T, A nullable, T -> "b" T | "c"
C24_Witness ==
    /\ last.op = "scan" /\ ret /\ panic = "" /\ g = 17
    /\ fed = <<2, 3>>
    /\ \E it \in RowSet(2) : Grammars[g].rhs[it.rule] = NULL /\ it.start = 0
    /\ \E it \in RowSet(0) : it.start = 0 /\ Grammars[g].rhs[it.rule] = 3

\* a lexeme no item of the row waits for: the row is empty, scan is false
C24_Rejected ==
    /\ last.op = "scan" /\ ~ret /\ panic = "" /\ g = 17 /\ fed = <<1>>
    /\ last.arg = 1

\* a byte push has returned false
RejectsByte ==
    /\ last'.op \in {"try_push_byte", "try_push_byte_definitive"}
    /\ panic' = "" /\ ~ret'

\* the lexer stack is as it was
StackKept ==
    /\ Len(lexer_stack') = Len(lexer_stack)
    /\ lexer_state(Self') = lexer_state(Self)
    /\ num_rows(Self') = num_rows(Self)

\* C25: a rejected byte leaves the parser unchanged: when try_push_byte or
\* try_push_byte_definitive returns false, the lexer_stack (depth and top
\* frame) and num_rows() are as before the call, and in definitive mode so
\* are row_infos.len() and captures.
C25_RejectedByteChangesNothing ==
    [][RejectsByte
         => /\ StackKept
            /\ definitive => /\ Len(row_infos') = Len(row_infos)
                             /\ captures' = captures]_vars

\* the part of C25 about the lexer stack alone
RejectedByteKeepsStack == [][RejectsByte => StackKept]_vars

\* the budgets of the occurrences of lexeme lx after the dot of an item of
\* the committed row k
Budgets(k, lx) ==
    {Grammars[g].syms[Grammars[g].rhs[it.rule]].max_tokens :
        it \in {i \in RowSet(k) :
                   /\ Grammars[g].rhs[i.rule] # NULL
                   /\ Grammars[g].syms[Grammars[g].rhs[i.rule]].lexeme = lx}}

MaxOf(S) == CHOOSE x \in S : \A y \in S : y <= x

\* the RowInfo of every committed row maps each lexeme to Pick of its
\* budgets and has no entry where that is unlimited
RowInfoBudgets(Pick(_)) ==
    definitive
      => \A k \in 0..(Min(num_rows(Self), Len(row_infos)) - 1) :
            \A lx \in DOMAIN Grammars[g].lexemes :
               IF Budgets(k, lx) # {} /\ Pick(Budgets(k, lx)) # USIZE_MAX
               THEN /\ lx \in DOMAIN row_infos[k + 1].max_tokens
                    /\ row_infos[k + 1].max_tokens[lx] = Pick(Budgets(k, lx))
               ELSE lx \notin DOMAIN row_infos[k + 1].max_tokens

\* C26 (as stated): in definitive mode the RowInfo pushed by push_row maps
\* each lexeme after the dot of some item of the row to the minimum of the
\* budgets of its occurrences, without entry for an unlimited result.
C26_RowInfoKeepsMinimum == RowInfoBudgets(MinOf)

\* C26 (amended): ... to the maximum of the budgets of its occurrences,
\* without entry for an unlimited result.
C26_RowInfoKeepsMaximum == RowInfoBudgets(MaxOf)

\* the lexeme "c" occurs with the budgets 1 and 2 and is mapped to 2, the
\* lexeme "d" with the budget 1 and without budget and has no entry
C26_Witness ==
    /\ definitive /\ panic = "" /\ g = 18 /\ num_rows(Self) = 2
    /\ Len(row_infos) = 2
    /\ Budgets(1, 2) = {1, 2} /\ Budgets(1, 4) = {1, USIZE_MAX}
    /\ row_infos[2].max_tokens = (2 :> 2)

\* the lexer ends the lexeme SKIP on byte b in the top frame's state
EndsSkip(b) ==
    Bind(advance(Grammars[g], lexer_state(Self).lexer_state, b), LAMBDA r :
         r.kind = "Lexeme" /\ r.idx = SKIP)

\* an accepted byte has scanned a SKIP lexeme: in definitive mode the lexeme
\* is recorded in the RowInfo of the row it was scanned from, in a
\* speculative region the byte is the last one to undo
SkipScanned ==
    /\ last'.op \in {"try_push_byte", "try_push_byte_definitive"}
    /\ panic' = "" /\ ret'
    /\ num_rows(Self') = num_rows(Self) + 1
    /\ IF definitive
       THEN /\ row_infos'[num_rows(Self)].lexeme.idx = SKIP
            /\ row_infos'[num_rows(Self)].lexeme.bytes # <<>>
       ELSE /\ Len(undo') = Len(undo) + 1
            /\ EndsSkip(undo'[Len(undo')].byte)

\* the current row is empty and every byte the driver feeds is refused by
\* the lexer or ends the lexeme SKIP
OnlySkipFromEmptyRow ==
    /\ curr_row(Self).last_item = curr_row(Self).first_item
    /\ \E b \in Alphabet : EndsSkip(b)
    /\ \A b \in Alphabet :
          EndsSkip(b)
            \/ advance(Grammars[g], lexer_state(Self).lexer_state, b).kind
                  = "Error"

\* C27: scanning a SKIP lexeme from a non-empty current row gives a row with
\* the current row's items in the same order, dots not advanced, right after
\* the current row's items, with the current row's allowed_lexemes and, in
\* definitive mode, the current row's max_tokens; nothing is predicted,
\* completed or captured.  From an empty current row the byte is rejected.
C27_SkipCopiesRow ==
    [][/\ SkipScanned
            => /\ curr_row(Self).last_item > curr_row(Self).first_item
               /\ curr_row(Self').first_item = curr_row(Self).last_item
               /\ row_items(Self', curr_row(Self'))
                     = row_items(Self, curr_row(Self))
               /\ curr_row(Self').allowed_lexemes
                     = curr_row(Self).allowed_lexemes
               /\ captures' = captures
               /\ definitive
                    => /\ Len(row_infos') = num_rows(Self')
                       /\ row_infos'[num_rows(Self')].max_tokens
                             = row_infos[num_rows(Self)].max_tokens
       /\ (/\ last'.op \in {"try_push_byte", "try_push_byte_definitive"}
           /\ panic' = "" /\ OnlySkipFromEmptyRow)
            => /\ ~ret'
               /\ lexer_stack' = lexer_stack /\ rows' = rows
               /\ row_infos' = row_infos /\ captures' = captures]_vars

\* after a, x of S -> "a" B, B with max_tokens 2: row 2 is a copy of row 1
\* and its RowInfo has row 1's budget of B
C27_Witness ==
    /\ definitive /\ panic = "" /\ g = 19 /\ num_rows(Self) = 3
    /\ last.op = "try_push_byte_definitive" /\ ret
    /\ row_infos[2].lexeme.idx = SKIP /\ row_infos[2].lexeme.bytes = <<120>>
    /\ row_items(Self, rows[3]) = row_items(Self, rows[2])
    /\ row_infos[3].max_tokens = (2 :> 2)

\* filter_max_tokens has emptied the current row and the byte of the SKIP
\* lexeme was rejected
C27_EmptyRowRejected ==
    /\ definitive /\ panic = "" /\ g = 19
    /\ last.op = "try_push_byte_definitive" /\ ~ret
    /\ curr_row(Self).last_item = curr_row(Self).first_item
    /\ EndsSkip(120)

\* a byte push has returned true
AcceptsByte ==
    /\ last'.op \in {"try_push_byte", "try_push_byte_definitive"}
    /\ panic' = "" /\ ret'

\* every accepted byte leaves the stack exactly one frame deeper; inside a
\* lexeme the new frame keeps the row
AcceptedByteAddsOneFrame ==
    [][AcceptsByte
         => /\ Len(lexer_stack') = Len(lexer_stack) + 1
            /\ num_rows(Self') = num_rows(Self)
                 => /\ SubSeq(lexer_stack', 1, Len(lexer_stack)) = lexer_stack
                    /\ lexer_state(Self').byte # None]_vars

\* C28: every accepted try_push_byte(b) or try_push_byte_definitive(Some(b))
\* deepens the lexer_stack by exactly one frame, whatever the byte did
\* (stayed in the lexeme, ended it, ended a single-byte second lexeme too,
\* replayed hidden bytes), so that pop_bytes(n) undoes exactly the last n
\* accepted bytes: the stack is again what it was before them.
C28_PopUndoesAcceptedBytes ==
    [][/\ AcceptsByte => Len(lexer_stack') = Len(lexer_stack) + 1
       /\ (last'.op = "pop_bytes" /\ panic' = "" /\ PopsBytes(last'.arg))
            => /\ Len(lexer_stack')
                     = undo[Len(undo) - last'.arg + 1].top.depth
               /\ lexer_state(Self').row_idx
                     = undo[Len(undo) - last'.arg + 1].top.row_idx
               /\ lexer_state(Self').lexer_state
                     = undo[Len(undo) - last'.arg + 1].top.lexer_state]_vars

\* an accepted byte that ended two lexemes: two rows further, one frame
TwoRowsOneFrame ==
    /\ last.op \in {"try_push_byte", "try_push_byte_definitive"} /\ ret
    /\ panic = "" /\ Len(lexer_stack) >= 2
    /\ lexer_state(Self).row_idx = lexer_stack[Len(lexer_stack) - 1].row_idx + 2

\* some frame of the current row holds a byte
PendingBytes(p) ==
    \E k \in 1..Len(p.lexer_stack) :
       /\ p.lexer_stack[k].row_idx = lexer_state(p).row_idx
       /\ p.lexer_stack[k].byte # None

\* the parser's own state, the scratch beyond the rows included
ParserState ==
    <<items, row_start, row_end, definitive, rows, row_infos, lexer_stack,
      captures, trie_lexer_stack, token_idx, byte_idx>>

\* C29: flush_lexer returns true and changes nothing when the current row
\* has no pending lexeme bytes; with pending bytes it asks try_lexeme_end
\* and, on a lexeme, advances the parser with it and returns what the
\* advance returns (true: one row and one frame further, the frame without
\* byte); when the lexer yields no lexeme it returns false and pushes no
\* frame.
C29_FlushLexer ==
    [][(last'.op = "flush_lexer" /\ panic' = "")
         => IF ~PendingBytes(Self)
            THEN ret' /\ ParserState' = ParserState
            ELSE IF try_lexeme_end(lexer_state(Self).lexer_state).kind
                       # "Lexeme"
            THEN ~ret' /\ ParserState' = ParserState
            ELSE /\ ret' = advance_parser(Self,
                              try_lexeme_end(lexer_state(Self).lexer_state)).ret
                 /\ IF ret'
                    THEN /\ num_rows(Self') = num_rows(Self) + 1
                         /\ Len(lexer_stack') = Len(lexer_stack) + 1
                         /\ lexer_state(Self').byte = None
                    ELSE lexer_stack' = lexer_stack]_vars

\* a flush that ended the pending lexeme and pushed the frame of a new row
C29_Witness ==
    /\ last.op = "flush_lexer" /\ ret /\ panic = ""
    /\ undo # <<>> /\ undo[Len(undo)].by = "flush_lexer"
    /\ lexer_state(Self).byte = None
    /\ Len(lexer_stack) = undo[Len(undo)].top.depth + 1

\* a flush with pending bytes that are no lexeme yet: false
C29_NoLexeme ==
    /\ last.op = "flush_lexer" /\ ~ret /\ panic = "" /\ PendingBytes(Self)
    /\ accepting(lexer_state(Self).lexer_state) = {}

\* a flush without pending bytes: true
C29_NothingPending ==
    /\ last.op = "flush_lexer" /\ ret /\ panic = "" /\ ~PendingBytes(Self)
    /\ (undo = <<>> \/ undo[Len(undo)].by # "flush_lexer")

\* compute_bias_after_gen_grammar has returned
ComputedBiasAfterGenGrammar ==
    last'.op = "compute_bias_after_gen_grammar" /\ panic' = ""

\* the committed rows as Earley sets, and the set a scan of the nested
\* grammar's symbol adds to them
GenGrammarRow(symidx) ==
    EarleyClosure(Grammars[g],
        {advance_dot(it) :
            it \in {i \in RowSet(num_rows(Self) - 1) :
                       Grammars[g].rhs[i.rule] = symidx}},
        [k \in 1..num_rows(Self) |-> RowSet(k - 1)], num_rows(Self))

\* the scan of the symbol gives an accepting row
GenGrammarAccepting(symidx) ==
    \E it \in GenGrammarRow(symidx) :
       /\ Grammars[g].rhs[it.rule] = NULL
       /\ Grammars[g].lhs[it.rule] = Grammars[g].start

\* what the call is to leave as it was
Committed == <<num_rows(Self), lexer_stack, row_infos, captures>>

\* C30 (as stated): compute_bias_after_gen_grammar scans the symbol only
\* speculatively: after the call num_rows(), the lexer_stack, row_infos and
\* captures are what they were, trie_gen_grammar is None, and the flag is
\* true iff the speculative scan succeeded and its row was accepting.
C30_GenGrammarScanLeavesNoTrace ==
    [][ComputedBiasAfterGenGrammar
         => /\ Committed' = Committed
            /\ trie_gen_grammar' = None
            /\ ret' <=> GenGrammarAccepting(last'.arg)]_vars

\* C30 (amended): ... are what they were when the returned set holds a
\* token; when it holds none the lexer was flushed in definitive mode after
\* the region was closed, and the parser is as flush_lexer leaves it.
C30_GenGrammarScanThenFlush ==
    [][ComputedBiasAfterGenGrammar
         => /\ IF ret_set' \ {EosToken} # {}
               THEN Committed' = Committed
               ELSE /\ definitive'
                    /\ lexer_stack' = flush_lexer(Self).lexer_stack
                    /\ row_infos' = flush_lexer(Self).row_infos
                    /\ captures' = flush_lexer(Self).captures
            /\ trie_gen_grammar' = None
            /\ ret' <=> GenGrammarAccepting(last'.arg)]_vars

\* the scan of the symbol gave an accepting row, tokens were allowed behind
\* it, and nothing is left of the row
C30_Witness ==
    /\ last.op = "compute_bias_after_gen_grammar" /\ panic = "" /\ ret
    /\ ret_set # {} /\ definitive /\ trie_gen_grammar = None
    /\ Len(rows) > num_rows(Self) /\ Len(row_infos) = num_rows(Self)

\* no token was allowed behind the symbol and the flush has committed the
\* pending lexeme
C30_Flushed ==
    /\ last.op = "compute_bias_after_gen_grammar" /\ panic = ""
    /\ ret_set = {} /\ g = 20 /\ num_rows(Self) = 3 /\ Len(row_infos) = 3

C31_NoExit ==
    (g = Len(Grammars) /\ InForceBytes /\ panic = "")
        => Bind(forced_byte(Self), LAMBDA f :
               /\ f.panic = "" /\ f.ret = 97
               /\ try_push_byte_definitive(f, f.ret).ret = TRUE
               /\ try_push_byte_definitive(f, f.ret).panic = "")

\* on the grammars that have a sentence the call returns
ForceBytesReturnsWithSentence ==
    (g \in WithSentence /\ InForceBytes) ~> (last.op = "force_bytes")

\* and returns what the loop run as a whole returns
ForceBytesAsOneCall ==
    (g \in WithSentence /\ last.op = "force_bytes")
        => Bind(force_bytes(saved), LAMBDA q :
               /\ q.panic = panic
               /\ panic = "" => /\ q.ret = ret_bytes
                                /\ q.lexer_stack = lexer_stack
                                /\ q.rows = rows /\ q.row_infos = row_infos)

\* the items the agenda turn of item it in row curr_idx hands to add_unique
Offers(curr_idx, it) ==
    Bind(Grammars[g], LAMBDA G :
    IF G.rhs[it.rule] = NULL
    THEN IF it.start < curr_idx
         THEN {advance_dot(w) :
                  w \in {v \in RowSet(it.start) : G.rhs[v.rule] = G.lhs[it.rule]}}
         ELSE {}
    ELSE (IF G.syms[G.rhs[it.rule]].is_nullable THEN {advance_dot(it)} ELSE {})
         \cup {Item(G.rules[G.rhs[it.rule]][j], curr_idx) :
                  j \in 1..Len(G.rules[G.rhs[it.rule]])})

\* the turns the agenda loop took for row k: one for every item of the row
Turns(k) == rows[k + 1].last_item - rows[k + 1].first_item

\* the items row k can hold: rule positions x origin rows 0..=k
Possible(k) == {Item(r, o) : r \in DOMAIN Grammars[g].rhs, o \in 0..k}

\* C32: the agenda loop of push_row terminates on every grammar: every item
\* of a row is one of the finitely many possible items of that row and is in
\* it once, so the loop took at most |rule positions| x (k + 1) turns, and
\* it stopped at the fixpoint: whatever the turn of an item of the row
\* offers is in the row.
C32_AgendaReachesFixpoint ==
    panic = ""
      => \A k \in 0..(num_rows(Self) - 1) :
            /\ RowSet(k) \subseteq Possible(k)
            /\ Distinct(row_items(Self, rows[k + 1]))
            /\ Turns(k) = Cardinality(RowSet(k))
            /\ Turns(k) <= Len(Grammars[g].rhs) * (k + 1)
            /\ \A it \in RowSet(k) : Offers(k, it) \subseteq RowSet(k)

\* a row of the left-recursive grammar, built by scan after the lexemes b, a:
\* the completed S -> S "a" . offers S -> S . "a", from which it came
C32_Witness ==
    /\ panic = "" /\ g = Len(Grammars) - 1 /\ num_rows(Self) = 3
    /\ last.op = "scan" /\ ret
    /\ Item(3, 0) \in RowSet(2)
    /\ Item(2, 0) \in Offers(2, Item(3, 0)) \cap RowSet(1)

\* row 0 of that grammar: the cycle A -> B, B -> A is predicted once
C32_CycleInRowZero ==
    /\ g = Len(Grammars) - 1 /\ num_rows(Self) = 1
    /\ \E i1, i2 \in RowSet(0) :
          /\ i1 # i2 /\ i1 \in Offers(0, i2) /\ i2 \in Offers(0, i1)

\* the frames the stack held at trie_started are still what they were
FramesBelowKept ==
    /\ Len(lexer_stack) >= Len(saved.lexer_stack)
    /\ SubSeq(lexer_stack, 1, Len(saved.lexer_stack)) = saved.lexer_stack

\* C33 (as stated): during a speculative region no lexer_stack frame below
\* the depth saved by trie_started is removed or overwritten, and after
\* trie_finished the stack is, frame by frame, the stack before trie_started.
C33_RegionKeepsFramesBelow ==
    (InRegion /\ panic = "")
        => /\ FramesBelowKept
           /\ last.op = "trie_finished" => lexer_stack = saved.lexer_stack

\* the same on the grammars without forced hidden bytes
FramesBelowKeptWithoutHidden ==
    (InRegion /\ panic = "" /\ g # 4) => FramesBelowKept

\* the items of the byte-level parser's row k (0-based), in order
ByteRowItems(p, k) ==
    [i \in 1..(p.rows[k + 1].last_item - p.rows[k + 1].first_item) |->
        p.items[p.rows[k + 1].first_item + i]]

\* C34: in the byte-level parser, after trie_started, accepted bytes and
\* pops of them, and trie_finished, rows.len() is row_infos.len() again,
\* row_infos and captures are as before trie_started, the rows below that
\* length and their items are unchanged and definitive is true; and a
\* try_push_byte that returns false pushes no row.
C34_ByteRegionRestores ==
    /\ (bp_last.op = "trie_finished" /\ bp.panic = "")
         => /\ Len(bp.rows) = Len(bp.row_infos)
            /\ bp.row_infos = bp_saved.row_infos
            /\ bp.captures = bp_saved.captures
            /\ bp.rows = bp_saved.rows
            /\ \A k \in 0..(Len(bp.rows) - 1) :
                  ByteRowItems(bp, k) = ByteRowItems(bp_saved, k)
            /\ bp.definitive
    /\ (~bp.definitive /\ bp.panic = "")
         => /\ bp.row_infos = bp_saved.row_infos
            /\ bp.captures = bp_saved.captures
            /\ Len(bp.rows) = Len(bp_saved.rows) + bp_pushed
            /\ SubSeq(bp.rows, 1, Len(bp_saved.rows)) = bp_saved.rows
            /\ \A k \in 0..(Len(bp_saved.rows) - 1) :
                  ByteRowItems(bp, k) = ByteRowItems(bp_saved, k)

\* a region was closed over rows pushed by accepted bytes, after a pop, on
\* the grammar with the capture, with bytes committed before it
C34_Witness ==
    /\ bp_last.op = "trie_finished" /\ bp.panic = ""
    /\ bp.g = 2 /\ Len(bp.rows) = 3 /\ bp.captures # <<>>
    /\ Len(bp.items) > bp.rows[3].last_item
    /\ \E i \in (bp.rows[3].last_item + 1)..Len(bp.items) :
          i <= Len(bp_saved.items) => bp.items[i] # bp_saved.items[i]

\* a rejected byte in a region
C34_Rejected ==
    /\ bp_last.op = "try_push_byte" /\ bp.panic = "" /\ ~bp.ret
    /\ bp_pushed > 0

\* no call on the byte-level parser fails an assertion or an index
ByteNoPanic == bp.panic = ""

\* in a region a commit point has cut the row short
ByteCommitInRegion ==
    /\ ~bp.definitive /\ bp.g = 3 /\ bp_pushed = 1 /\ bp.ret
    /\ byte_curr_row(bp).last_item - byte_curr_row(bp).first_item = 1

\* hide_item has rebuilt row 0
ByteHidden ==
    /\ bp.definitive /\ bp.g = 3 /\ bp_last.op = "scan" /\ bp.ret
    /\ Len(bp.rows) = 1

\* the calls of map_node recorded so far, and the one for a node
MapCalls == {mp.calls[j] : j \in 1..Len(mp.calls)}

CallOf(path) == CHOOSE c \in MapCalls : c.ast = path

Called(path) == \E c \in MapCalls : c.ast = path

\* map_ast visits as the fold does: no assertion fails, the loop is left by
\* the return after at most two turns per node, map_node is called at most
\* once per node, after the calls for the node's children and with as many
\* results as the node has children, and at the return it has been called
\* for every node, last for the root, whose result is returned
MapAstVisits ==
    /\ mp.pc \in {"loop", "returned"}
    /\ mp.pc = "loop" => mp.stack # <<>>
    /\ mp.turns <= 2 * Cardinality(Paths(mp.root))
    /\ \A j, k \in 1..Len(mp.calls) :
          mp.calls[j].ast = mp.calls[k].ast => j = k
    /\ \A j \in 1..Len(mp.calls) :
          LET c == mp.calls[j]
              args == get_args(at(mp.root, c.ast))
          IN  /\ c.ast \in Paths(mp.root)
              /\ Len(c.args) = Len(args)
              /\ \A i \in 1..Len(args) :
                    \E k \in 1..(j - 1) : mp.calls[k].ast = Append(c.ast, i)
    /\ mp.pc = "returned"
         => /\ {c.ast : c \in MapCalls} = Paths(mp.root)
            /\ mp.calls[Len(mp.calls)].ast = <<>>
            /\ mp.r = mp.calls[Len(mp.calls)].r

\* C35: map_ast is the bottom-up fold: it terminates, calls map_node once
\* for every node, for a node after its children, with as many child results
\* as the node has children (the assertion never fails), and returns the
\* value of the recursive definition fold(n) = map_node(n, [fold(c) for c in
\* get_args(n)]).
C35_MapAstIsFold ==
    /\ MapAstVisits
    /\ mp.pc = "returned" => mp.r = fold(mp.kind, mp.root)

\* what map_ast returns is the fold that takes the children's results last
\* child first
MapAstIsFoldReversed ==
    mp.pc = "returned" => mp.r = fold_rev(mp.kind, mp.root)

\* with a closure that does not depend on the order of the results, map_ast
\* returns the value of the fold
MapAstIsFoldWhenCounting ==
    (mp.pc = "returned" /\ mp.kind = "count")
        => mp.r = fold(mp.kind, mp.root)

\* a node with one child at most at every level is folded as defined
MapAstIsFoldOnChains ==
    (mp.pc = "returned"
       /\ \A p \in Paths(mp.root) : Len(get_args(at(mp.root, p))) <= 1)
        => mp.r = fold(mp.kind, mp.root)

\* the stepwise run is map_ast
MapAstAsOneCall ==
    mp.pc = "returned" => mp = map_ast(mp.root, mp.kind)

\* a tree of depth two with a node of two children was folded
MapAstReturnedDeep ==
    /\ mp.pc = "returned" /\ mp.kind = "term"
    /\ \E p \in Paths(mp.root) : Len(p) = 2
    /\ Len(get_args(mp.root)) = 2

\* C36: for every node with two or more children, the i-th of the child
\* results passed to map_node is the result for the i-th child of get_args.
C36_ArgsInChildOrder ==
    \A c \in MapCalls :
        Len(c.args) >= 2
            => \A i \in 1..Len(c.args) :
                  /\ Called(Append(c.ast, i))
                  /\ c.args[i] = CallOf(Append(c.ast, i)).r

\* the i-th of the child results is the result for the i-th child from the
\* end
ArgsInReverseChildOrder ==
    \A c \in MapCalls :
        \A i \in 1..Len(c.args) :
            /\ Called(Append(c.ast, Len(c.args) + 1 - i))
            /\ c.args[i] = CallOf(Append(c.ast, Len(c.args) + 1 - i)).r

\* C37: on a CmdChannel neither assertion on cmd_pending fails, and
\* cmd_pending is false whenever exec has returned, with Ok or with any Err.
C37_CmdChannelStaysUsable ==
    /\ cc.pc # "panic"
    /\ cc.pc = "idle" => ~cc.cmd_pending

\* as long as no send and no recv has failed it is so
CmdChannelUsableWhileChannelsWork ==
    ~cc.failed => C37_CmdChannelStaysUsable

\* exec has returned each of the results that leave the channels working
CmdExecReturnedErrNoData ==
    cc.pc = "idle" /\ cc.execs = 3 /\ ~cc.failed
       /\ cc.ret = "Err: Bad response - no 'data'"

\* an exec after a failed send
CmdPanicAfterFailedSend ==
    cc.pc = "panic" /\ cc.execs = 2 /\ cc.cmd_ch = <<>> /\ cc.resp_ch = <<>>

\* C38: each call of exec receives the response with its own $rid, no
\* response is delivered to two calls or to the wrong one, and the reader
\* thread finds in pending_reqs the entry for every response it receives.
C38_EachCallGetsItsResponse ==
    /\ \A c \in Calls :
          ac.call[c].rx # <<>> => ac.call[c].rx[1].rid = ac.call[c].rid
    /\ \A i, j \in 1..Len(ac.delivered) :
          ac.delivered[i].rid = ac.delivered[j].rid => i = j
    /\ \A i \in 1..Len(ac.delivered) :
          ac.call[ac.delivered[i].to].rid = ac.delivered[i].rid
    /\ ac.reader \notin {"panic: remove", "panic: $rid", "panic: lock",
                         "panic: from_slice"}
    /\ ~ac.poisoned

\* three calls have returned, answered in another order than they asked
C38_Witness ==
    /\ \A c \in Calls : ac.call[c].pc = "returned"
    /\ ac.call[1].ret = "Ok" /\ ac.call[2].ret = "Err: Bad response"
    /\ ac.call[3].ret = "Err: Bad response - no 'data'"
    /\ Len(ac.delivered) = 3
    /\ ac.delivered[1].to = 3 /\ ac.delivered[2].to = 1
    /\ ac.call[1].rid = 2

\* the response of a call is on the response channel
ResponseArrived(c) ==
    \E i \in 1..Len(ac.resp_ch) : ac.resp_ch[i].rid = ac.call[c].rid

\* C39: every exec whose request was sent and whose response has arrived on
\* the response channel eventually completes (unless it is itself dropped),
\* whatever the other calls do and whatever else arrives.
C39_ArrivedResponseCompletes ==
    \A c \in Calls :
        (ac.call[c].pc = "awaiting" /\ ResponseArrived(c))
            ~> (ac.call[c].pc \in {"returned", "dropped"})

\* as long as the reader thread runs, a response that has arrived is
\* delivered
C39_WhileReaderRuns ==
    \A c \in Calls :
        (ac.call[c].pc = "awaiting" /\ ResponseArrived(c))
            ~> (ac.call[c].pc \in {"returned", "dropped"}
                  \/ ac.reader # "running")

\* the reader thread ends only on a response to a dropped call, to no call,
\* or without $rid
ReaderEndsOnlyThen ==
    ac.reader \in {"running", "panic: tx.send", "panic: remove",
                   "panic: $rid"}

\* the reader thread has ended on the response to a dropped call while the
\* response of another call waits
ReaderEndedOnDropped ==
    /\ ac.reader = "panic: tx.send"
    /\ \E c \in Calls : ac.call[c].pc = "awaiting" /\ ResponseArrived(c)
====
